---- MODULE Spec2Model ----
(***************************************************************************)
(* A model of the Meplato Store 2 Go client: the response/error decoding   *)
(* contract shared by every Do (internal/meplatoapi), the Do methods of    *)
(* the services, the builders, the download, upload and publish commands   *)
(* and goroutines that share one Service.                                  *)
(*                                                                         *)
(* Text on the wire (a response body, a Go string holding it) is a         *)
(* sequence of lexical tokens; encoding/json is modelled by a parser over  *)
(* these tokens, so that "the body decodes as ..." is computed.            *)
(***************************************************************************)
EXTENDS Integers, Sequences, FiniteSets, TLC

(***************************************************************************)
(* Bounds of the model.                                                    *)
(***************************************************************************)
\* how many tokens past the end of a decoded value the json.Decoder may
\* have buffered from the body
MaxAhead == 1
\* how many requests the download loop is followed for
MaxCalls == 3
MaxSetters == 3
\* how many data rows of an uploaded file are followed
MaxRows == 2
\* how many status requests of the publish command are followed
MaxPolls == 3
\* how many goroutines use the Service at once
NProcs == 2

(***************************************************************************)
(* Lexical tokens of a body.                                               *)
(***************************************************************************)
P(c) == [t |-> "p", s |-> c, n |-> 0]        \* punctuation { } [ ] : ,
S(x) == [t |-> "s", s |-> x, n |-> 0]        \* a JSON string literal "x"
N(k) == [t |-> "n", s |-> "", n |-> k]       \* a JSON integer literal
X(x) == [t |-> "x", s |-> x, n |-> 0]        \* text that is no JSON token
Null == [t |-> "l", s |-> "null", n |-> 0]   \* the literal null
B(b) == [t |-> "b", s |-> IF b THEN "true" ELSE "false", n |-> 0]  \* true, false
EOFTok == [t |-> "eof", s |-> "", n |-> 0]   \* reading past the end

LB == P("{")
RB == P("}")
LA == P("[")
RA == P("]")
CO == P(":")
CM == P(",")

Tok(toks, i) == IF i >= 1 /\ i <= Len(toks) THEN toks[i] ELSE EOFTok

Min(a, b) == IF a <= b THEN a ELSE b

\* the plain text x as the content of a Go string
Text(x) == IF x = "" THEN << >> ELSE << X(x) >>

(***************************************************************************)
(* encoding/json, syntax: the scanner.  SkipValue(toks, i) is the index    *)
(* after the value that starts at i, or -k when the scan fails at token k  *)
(* (k = Len(toks) + 1: unexpected end of input).                           *)
(***************************************************************************)
RECURSIVE SkipValue(_, _), SkipMembers(_, _), SkipElements(_, _)

SkipValue(toks, i) ==
    LET tk == Tok(toks, i) IN
    CASE tk.t \in {"s", "n", "l", "b"} -> i + 1
      [] tk = LB -> IF Tok(toks, i + 1) = RB THEN i + 2 ELSE SkipMembers(toks, i + 1)
      [] tk = LA -> IF Tok(toks, i + 1) = RA THEN i + 2 ELSE SkipElements(toks, i + 1)
      [] OTHER -> 0 - i

\* i is the position of a member's key
SkipMembers(toks, i) ==
    IF Tok(toks, i).t # "s" THEN 0 - i
    ELSE IF Tok(toks, i + 1) # CO THEN 0 - (i + 1)
    ELSE LET j == SkipValue(toks, i + 2) IN
         IF j < 0 THEN j
         ELSE IF Tok(toks, j) = CM THEN SkipMembers(toks, j + 1)
         ELSE IF Tok(toks, j) = RB THEN j + 1
         ELSE 0 - j

\* i is the position of an element
SkipElements(toks, i) ==
    LET j == SkipValue(toks, i) IN
    IF j < 0 THEN j
    ELSE IF Tok(toks, j) = CM THEN SkipElements(toks, j + 1)
    ELSE IF Tok(toks, j) = RA THEN j + 1
    ELSE 0 - j

\* json.checkValid: exactly one value and nothing after it
CheckValid(toks) == SkipValue(toks, 1) = Len(toks) + 1

\* The members of the (valid) object starting at i: <<[key, at]>>, at the
\* index of the member's value, in document order.
RECURSIVE MembersFrom(_, _)
MembersFrom(toks, k) ==
    IF Tok(toks, k).t # "s" THEN << >>
    ELSE LET j == SkipValue(toks, k + 2) IN
         << [key |-> Tok(toks, k).s, at |-> k + 2] >>
            \o (IF Tok(toks, j) = CM THEN MembersFrom(toks, j + 1) ELSE << >>)

Members(toks, i) == MembersFrom(toks, i + 1)

\* The elements of the (valid) array starting at i: the indexes of its values.
RECURSIVE ElementsFrom(_, _)
ElementsFrom(toks, k) ==
    IF Tok(toks, k) = RA THEN << >>
    ELSE LET j == SkipValue(toks, k) IN
         << k >> \o (IF Tok(toks, j) = CM THEN ElementsFrom(toks, j + 1) ELSE << >>)

Elements(toks, i) == ElementsFrom(toks, i + 1)

\* encoding/json matches an object key to a struct field ignoring case
Lower(k) ==
    CASE k = "Error" -> "error"
      [] k = "Code" -> "code"
      [] k = "Message" -> "message"
      [] k = "Details" -> "details"
      [] k = "Body" -> "body"
      [] OTHER -> k

\* a []string field: the strings of the array at i, and whether an element
\* or the value itself has the wrong type
RECURSIVE StringsOf(_, _, _)
StringsOf(toks, els, k) ==
    IF k > Len(els) THEN << >>
    ELSE << (IF Tok(toks, els[k]).t = "s" THEN Tok(toks, els[k]).s ELSE "") >>
            \o StringsOf(toks, els, k + 1)

(***************************************************************************)
(* meplatoapi.Error and the error values a Do returns.  kind "nil" is the  *)
(* nil error, "Error" a *meplatoapi.Error, the others are errors of the    *)
(* transport, of the json.Decoder and of template expansion.               *)
(***************************************************************************)
Error(code, message, details, body) ==
    [kind |-> "Error", Code |-> code, Message |-> message, Details |-> details,
     Body |-> body]

OtherError(k) ==
    [kind |-> k, Code |-> 0, Message |-> "", Details |-> << >>, Body |-> << >>]

Nil == OtherError("nil")

\* a variant that prints the code only when there is a message
ErrorStringMessageFirst(e) ==
    IF e.Message # "" THEN << "meplatoapi: Error ", ToString(e.Code), ": ", e.Message >>
    ELSE << "meplatoapi: Error" >>

\* (*Error).Error(): the pieces written to the buffer
ErrorString(e) ==
    << "meplatoapi: Error ", ToString(e.Code), ": " >>
    \o (IF e.Message # "" THEN << e.Message >> ELSE << >>)

(***************************************************************************)
(* json.Unmarshal(slurp, jerr) with jerr = new(errorReply).                *)
(* A type mismatch is recorded (terr) and decoding goes on, as in          *)
(* encoding/json; a later member for the same field overwrites an earlier. *)
(***************************************************************************)
\* Details []string from the array with the elements els
WithDetails(e, toks, els) ==
    [e EXCEPT !.Details = StringsOf(toks, els, 1),
              !.terr = e.terr \/ \E x \in 1..Len(els) : Tok(toks, els[x]).t \notin {"s", "l"}]

\* the members ms of an object decoded into e, an Error
RECURSIVE DecodeErrorMembers(_, _, _, _)
DecodeErrorMembers(toks, ms, k, e) ==
    IF k > Len(ms) THEN e
    ELSE
      LET key == Lower(ms[k].key)
          v == Tok(toks, ms[k].at)
          e1 ==
            IF v.t = "l" THEN e      \* null leaves the field as it is
            ELSE
            CASE key = "code" ->
                   IF v.t = "n" THEN [e EXCEPT !.Code = v.n] ELSE [e EXCEPT !.terr = TRUE]
              [] key = "message" ->
                   IF v.t = "s" THEN [e EXCEPT !.Message = v.s] ELSE [e EXCEPT !.terr = TRUE]
              [] key = "details" ->
                   IF v = LA THEN WithDetails(e, toks, Elements(toks, ms[k].at))
                   ELSE [e EXCEPT !.terr = TRUE]
              [] key = "body" ->
                   IF v.t = "s" THEN [e EXCEPT !.Body = Text(v.s)] ELSE [e EXCEPT !.terr = TRUE]
              [] OTHER -> e
      IN DecodeErrorMembers(toks, ms, k + 1, e1)

ZeroError == [Code |-> 0, Message |-> "", Details |-> << >>, Body |-> << >>, terr |-> FALSE]

\* jerr.Error points to the Error d
WithError(r, d) == [r EXCEPT !.has = TRUE, !.e = d, !.err = r.err \/ d.terr]

\* the members of the top-level object decoded into r, an errorReply:
\* r.has is "jerr.Error != nil", r.e the Error it points to
RECURSIVE DecodeReplyMembers(_, _, _, _)
DecodeReplyMembers(toks, ms, k, r) ==
    IF k > Len(ms) THEN r
    ELSE
      LET v == Tok(toks, ms[k].at)
          r1 ==
            IF Lower(ms[k].key) # "error" THEN r
            ELSE IF v.t = "l" THEN [r EXCEPT !.has = FALSE, !.e = ZeroError]
            ELSE IF v = LB
                 THEN WithError(r, DecodeErrorMembers(toks, Members(toks, ms[k].at), 1,
                                                      [r.e EXCEPT !.terr = FALSE]))
            ELSE [r EXCEPT !.has = TRUE, !.err = TRUE]
      IN DecodeReplyMembers(toks, ms, k + 1, r1)

Unmarshal(slurp) ==
    LET zero == [err |-> FALSE, has |-> FALSE, e |-> ZeroError] IN
    IF ~CheckValid(slurp) THEN [zero EXCEPT !.err = TRUE]
    ELSE IF Tok(slurp, 1).t = "l" THEN zero
    ELSE IF Tok(slurp, 1) # LB THEN [zero EXCEPT !.err = TRUE]
    ELSE DecodeReplyMembers(slurp, Members(slurp, 1), 1, zero)

(***************************************************************************)
(* meplatoapi.CheckResponse.  StatusCode and data are the response; avail  *)
(* is how many tokens of the body the transport delivers (all of them when *)
(* avail = Len(data), otherwise the read fails after avail).  The value is *)
(* the error returned and the position the body has been read to.          *)
(***************************************************************************)
\* a variant that takes every status below 400 for a success
IsSuccessBelow400(StatusCode) == StatusCode >= 200 /\ StatusCode < 400

IsSuccess(StatusCode) == StatusCode >= 200 /\ StatusCode <= 299

\* a variant that always reports the HTTP status
BackfillAlways(code, StatusCode) == StatusCode

\* if jerr.Error.Code == 0 { jerr.Error.Code = res.StatusCode }
BackfillCode(code, StatusCode) == IF code = 0 THEN StatusCode ELSE code

\* a variant that leaves Body as the decoder left it
EnvelopeBodyDecoded(decoded, slurp) == decoded

\* jerr.Error.Body = string(slurp), over whatever the body decoded into Body
EnvelopeBody(decoded, slurp) == slurp

\* a variant that makes up a message
FallbackWithMessage(StatusCode, slurp) == Error(StatusCode, "unknown error", << >>, slurp)

\* a variant that drops the body
FallbackWithoutBody(StatusCode, slurp) == Error(StatusCode, "", << >>, << >>)

\* return &Error{Code: res.StatusCode, Body: string(slurp)}
Fallback(StatusCode, slurp) == Error(StatusCode, "", << >>, slurp)

\* the error for what was read: slurp, whether the read failed (err != nil
\* after ioutil.ReadAll), and what slurp unmarshals to
ErrorOf(StatusCode, slurp, rerr, jerr) ==
    IF ~rerr /\ ~jerr.err /\ jerr.has
    THEN Error(BackfillCode(jerr.e.Code, StatusCode), jerr.e.Message, jerr.e.Details,
               EnvelopeBody(jerr.e.Body, slurp))
    ELSE Fallback(StatusCode, slurp)

CheckResponse(StatusCode, data, avail) ==
    IF IsSuccess(StatusCode) THEN [err |-> Nil, pos |-> 0]
    ELSE [err |-> ErrorOf(StatusCode, SubSeq(data, 1, avail), avail < Len(data),
                          Unmarshal(SubSeq(data, 1, avail))),
          pos |-> avail]

(***************************************************************************)
(* The result types, and json.NewDecoder(res.Body).Decode(ret) with        *)
(* ret = new(T).  A result is [Kind, PageToken, Items]; Fields(T) are the  *)
(* JSON names T declares among them (MeResponse has no pageToken or items, *)
(* and the types without a result have none).                              *)
(***************************************************************************)
ZeroResult == [Kind |-> "", PageToken |-> "", Items |-> << >>, Done |-> FALSE, terr |-> FALSE]

Fields(T) ==
    CASE T = "MeResponse" -> {"kind"}
      [] T = "ScrollResponse" -> {"kind", "pageToken", "items"}
      [] T = "SearchResponse" -> {"kind", "items"}
      [] T \in {"CreateProductResponse", "UpdateProductResponse", "PublishResponse"} -> {"kind"}
      [] T = "PublishStatusResponse" -> {"kind", "done"}
      [] OTHER -> {}

\* Product.Spn from the members ms of a product: the last "spn" wins
SpnOf(toks, ms) ==
    LET hits == {x \in 1..Len(ms) : ms[x].key = "spn" /\ Tok(toks, ms[x].at).t = "s"} IN
    IF hits = {} THEN ""
    ELSE Tok(toks, ms[CHOOSE x \in hits : \A y \in hits : y <= x].at).s

SpnTypeError(toks, ms) ==
    \E m \in 1..Len(ms) : ms[m].key = "spn" /\ Tok(toks, ms[m].at).t \notin {"s", "l"}

\* Items []*Product: the Spn of each product of the array with the elements els
RECURSIVE ProductsOf(_, _, _)
ProductsOf(toks, els, k) ==
    IF k > Len(els) THEN << >>
    ELSE << (IF Tok(toks, els[k]) = LB THEN SpnOf(toks, Members(toks, els[k])) ELSE "") >>
         \o ProductsOf(toks, els, k + 1)

ProductsTypeError(toks, els) ==
    \E k \in 1..Len(els) :
       \/ Tok(toks, els[k]).t \notin {"l", "p"}
       \/ Tok(toks, els[k]) = LA
       \/ Tok(toks, els[k]) = LB /\ SpnTypeError(toks, Members(toks, els[k]))

WithItems(r, toks, els) ==
    [r EXCEPT !.Items = ProductsOf(toks, els, 1),
              !.terr = r.terr \/ ProductsTypeError(toks, els)]

RECURSIVE DecodeResultMembers(_, _, _, _, _)
DecodeResultMembers(T, toks, ms, k, r) ==
    IF k > Len(ms) THEN r
    ELSE
      LET key == ms[k].key
          v == Tok(toks, ms[k].at)
          r1 ==
            IF key \notin Fields(T) \/ v.t = "l" THEN r
            ELSE
            CASE key = "kind" ->
                   IF v.t = "s" THEN [r EXCEPT !.Kind = v.s] ELSE [r EXCEPT !.terr = TRUE]
              [] key = "pageToken" ->
                   IF v.t = "s" THEN [r EXCEPT !.PageToken = v.s] ELSE [r EXCEPT !.terr = TRUE]
              [] key = "items" ->
                   IF v = LA THEN WithItems(r, toks, Elements(toks, ms[k].at))
                   ELSE [r EXCEPT !.terr = TRUE]
              [] key = "done" ->
                   IF v.t = "b" THEN [r EXCEPT !.Done = (v.s = "true")]
                   ELSE [r EXCEPT !.terr = TRUE]
              [] OTHER -> r
      IN DecodeResultMembers(T, toks, ms, k + 1, r1)

\* Decode reads one value from the stream: the tokens after it stay unread,
\* but for up to `ahead` of them that the decoder has buffered.  The value is
\* [err, ret, pos]: err is "nil" or the kind of the error.
Decoded(r, pos) == [err |-> IF r.terr THEN "type" ELSE "nil", ret |-> r, pos |-> pos]

\* view is what the transport delivers, j the scan of its first value
DecodeView(T, view, j, more, ahead) ==
    IF j < 0
    THEN \* no complete value: a syntax error at token -j, or the input ended
         IF 0 - j > Len(view)
         THEN [err |-> IF more THEN "read" ELSE "eof", ret |-> ZeroResult, pos |-> Len(view)]
         ELSE [err |-> "syntax", ret |-> ZeroResult, pos |-> Min(Len(view), (0 - j) + ahead)]
    ELSE Decoded(IF Tok(view, 1).t = "l" THEN ZeroResult
                 ELSE IF Tok(view, 1) # LB THEN [ZeroResult EXCEPT !.terr = TRUE]
                 ELSE DecodeResultMembers(T, view, Members(view, 1), 1, ZeroResult),
                 Min(Len(view), (j - 1) + ahead))

Decode(T, data, avail, ahead) ==
    DecodeView(T, SubSeq(data, 1, avail), SkipValue(SubSeq(data, 1, avail), 1),
               avail < Len(data), ahead)

(***************************************************************************)
(* Path templates.  A template is the parsed form of a pattern: literals,  *)
(* path variables {v} and one query-form expression {?a,b,c}.  A parameter *)
(* set maps the names that are present to their values (S(x) a string,     *)
(* N(k) an integer).  An expanded path is the sequence of its pieces.      *)
(***************************************************************************)
Lit(text) == [seg |-> "lit", text |-> text, names |-> << >>]
Var(name) == [seg |-> "var", text |-> name, names |-> << >>]
Query(names) == [seg |-> "query", text |-> "", names |-> names]

\* "/catalogs/{pin}/{area}/products/scroll{?pageToken,mode,version}"
ScrollTemplate ==
    << Lit("/catalogs/"), Var("pin"), Lit("/"), Var("area"), Lit("/products/scroll"),
       Query(<< "pageToken", "mode", "version" >>) >>

\* the string form of a parameter value
Stringify(v) == IF v.t = "n" THEN ToString(v.n) ELSE v.s

\* percent-encoding of the values the model uses
PercentEncode(x) ==
    CASE x = "a b" -> "a%20b"
      [] x = "a/b" -> "a%2Fb"
      [] OTHER -> x

\* a variant that emits key= for a variable without a value
RECURSIVE QueryPairsKeepingAbsent(_, _, _, _)
QueryPairsKeepingAbsent(names, params, k, first) ==
    IF k > Len(names) THEN << >>
    ELSE << (IF first THEN "?" ELSE "&"), names[k], "=",
            (IF names[k] \in DOMAIN params
             THEN PercentEncode(Stringify(params[names[k]])) ELSE "") >>
            \o QueryPairsKeepingAbsent(names, params, k + 1, FALSE)

RECURSIVE QueryPairs(_, _, _, _)
QueryPairs(names, params, k, first) ==
    IF k > Len(names) THEN << >>
    ELSE IF names[k] \notin DOMAIN params THEN QueryPairs(names, params, k + 1, first)
    ELSE << (IF first THEN "?" ELSE "&"), names[k], "=",
            PercentEncode(Stringify(params[names[k]])) >>
            \o QueryPairs(names, params, k + 1, FALSE)

\* a variant that goes through the parameters in the order of their keys,
\* the order in which the Do methods fill the params map
KeyOrder(names) ==
    LET Declared(x) == \E i \in 1..Len(names) : names[i] = x
    IN SelectSeq(<< "mode", "pageToken", "q", "skip", "sort", "take", "version" >>, Declared)

\* the order in which a query-form expression goes through its variables:
\* the order of the template
QueryOrder(names) == names

RECURSIVE ExpandFrom(_, _, _)
ExpandFrom(template, params, k) ==
    IF k > Len(template) THEN [err |-> "", path |-> << >>]
    ELSE
      LET sg == template[k]
          rest == ExpandFrom(template, params, k + 1)
      IN IF sg.seg = "var" /\ sg.text \notin DOMAIN params
         THEN [err |-> sg.text, path |-> << >>]
         ELSE IF rest.err # "" THEN rest
         ELSE [err |-> "",
               path |-> (CASE sg.seg = "lit" -> << sg.text >>
                           [] sg.seg = "var" ->
                                << PercentEncode(Stringify(params[sg.text])) >>
                           [] OTHER -> QueryPairs(QueryOrder(sg.names), params, 1, TRUE))
                        \o rest.path]

\* meplatoapi.Expand: err names the missing variable ("" when there is none)
Expand(template, params) == ExpandFrom(template, params, 1)

\* does the expanded path carry the query parameter `name`
HasQueryParam(path, name) ==
    \E i \in 2..Len(path) - 1 :
       path[i] = name /\ path[i + 1] = "=" /\ path[i - 1] \in {"?", "&"}

\* the templates of catalogs.GetService.Do and catalogs.SearchService.Do
CatalogTemplate == << Lit("/catalogs/"), Var("pin") >>

CatalogsTemplate == << Lit("/catalogs"), Query(<< "q", "skip", "take", "sort" >>) >>

(***************************************************************************)
(* The scroll builder (products.ScrollService): opt_ holds the optional    *)
(* parameters whose setter was called.                                     *)
(***************************************************************************)
EmptyMap == [x \in {} |-> Null]

Put(m, k, v) == [x \in DOMAIN m \cup {k} |-> IF x = k THEN v ELSE m[x]]

NewScrollService == [pin |-> "", area |-> "", opt_ |-> EmptyMap]

SetArea(b, area) == [b EXCEPT !.area = area]
SetMode(b, mode) == [b EXCEPT !.opt_ = Put(@, "mode", S(mode))]
SetPageToken(b, pageToken) == [b EXCEPT !.opt_ = Put(@, "pageToken", S(pageToken))]
SetPIN(b, pin) == [b EXCEPT !.pin = pin]
SetVersion(b, version) == [b EXCEPT !.opt_ = Put(@, "version", N(version))]

\* the params map ScrollService.Do builds
CopyOpt(params, opt, name) ==
    IF name \in DOMAIN opt THEN Put(params, name, opt[name]) ELSE params

\* a variant that leaves out a path variable that is empty
ScrollParamsOmittingEmpty(b) ==
    LET p1 == IF b.area = "" THEN EmptyMap ELSE Put(EmptyMap, "area", S(b.area))
        p2 == CopyOpt(p1, b.opt_, "mode")
        p3 == CopyOpt(p2, b.opt_, "pageToken")
        p4 == IF b.pin = "" THEN p3 ELSE Put(p3, "pin", S(b.pin))
    IN CopyOpt(p4, b.opt_, "version")

ScrollParams(b) ==
    LET p1 == Put(EmptyMap, "area", S(b.area))
        p2 == CopyOpt(p1, b.opt_, "mode")
        p3 == CopyOpt(p2, b.opt_, "pageToken")
        p4 == Put(p3, "pin", S(b.pin))
    IN CopyOpt(p4, b.opt_, "version")

(***************************************************************************)
(* Request bodies: meplatoapi.ReadJSON(v) is json.NewEncoder(buf).Encode(v). *)
(* A pointer field is [nil, v] with v the token of the value it points to, *)
(* a slice field [nil, v] with v the sequence of its strings.  Every field *)
(* of the payloads is tagged omitempty: the encoder leaves out a nil       *)
(* pointer, a slice of length 0 (nil or not), an empty string and a zero.  *)
(***************************************************************************)
NilPointer == [nil |-> TRUE, v |-> Null]
PointerTo(v) == [nil |-> FALSE, v |-> v]
NilSlice == [nil |-> TRUE, v |-> << >>]
Slice(xs) == [nil |-> FALSE, v |-> xs]

\* the line end Encode writes after the value
NL == X("\n")

\* one member of an object, or none when omitempty finds the value empty
Member(key, empty, value) == IF empty THEN << >> ELSE << << S(key), CO >> \o value >>

RECURSIVE JoinMembers(_, _)
JoinMembers(ms, k) ==
    IF k > Len(ms) THEN << >>
    ELSE (IF k > 1 THEN << CM >> ELSE << >>) \o ms[k] \o JoinMembers(ms, k + 1)

Object(ms) == << LB >> \o JoinMembers(ms, 1) \o << RB >>

RECURSIVE StringElements(_, _)
StringElements(xs, k) ==
    IF k > Len(xs) THEN << >>
    ELSE (IF k > 1 THEN << CM >> ELSE << >>) \o << S(xs[k]) >> \o StringElements(xs, k + 1)

\* a variant without omitempty: a nil pointer is written as null
PointerMemberOrNull(key, f) == Member(key, FALSE, << f.v >>)

\* a *string, *float64 or *bool field
PointerMember(key, f) == Member(key, f.nil, << f.v >>)

\* a []string field
SliceMember(key, f) ==
    Member(key, Len(f.v) = 0, << LA >> \o StringElements(f.v, 1) \o << RA >>)

\* a string field and a float64 field
StringMember(key, x) == Member(key, x = "", << S(x) >>)
NumberMember(key, k) == Member(key, k = 0, << N(k) >>)

\* an Eclass, and a []*Eclass field
Eclass(version, code) == [Code |-> code, Version |-> version]

EclassObject(e) == Object(StringMember("code", e.Code) \o StringMember("version", e.Version))

RECURSIVE EclassElements(_, _)
EclassElements(es, k) ==
    IF k > Len(es) THEN << >>
    ELSE (IF k > 1 THEN << CM >> ELSE << >>) \o EclassObject(es[k]) \o EclassElements(es, k + 1)

EclassesMember(key, es) ==
    Member(key, Len(es) = 0, << LA >> \o EclassElements(es, 1) \o << RA >>)

\* UpdateProduct, its fields in the order of the struct
NilUpdateProduct ==
    [nil |-> TRUE, Categories |-> NilSlice, Eclasses |-> << >>, Manufacturer |-> NilPointer,
     Mpn |-> NilPointer, Name |-> NilPointer, OrderUnit |-> NilPointer, Price |-> NilPointer,
     TaxCode |-> NilPointer]

UpdateProduct(categories, name, price) ==
    [NilUpdateProduct EXCEPT !.nil = FALSE, !.Categories = categories, !.Name = name,
                             !.Price = price]

MarshalUpdateProduct(p) ==
    Object(SliceMember("categories", p.Categories) \o EclassesMember("eclasses", p.Eclasses)
           \o PointerMember("manufacturer", p.Manufacturer) \o PointerMember("mpn", p.Mpn)
           \o PointerMember("name", p.Name) \o PointerMember("ou", p.OrderUnit)
           \o PointerMember("price", p.Price) \o PointerMember("taxCode", p.TaxCode))

\* CreateProduct
NilCreateProduct ==
    [nil |-> TRUE, Categories |-> NilSlice, Eclasses |-> << >>, Manufacturer |-> "",
     Mpn |-> "", Name |-> "", OrderUnit |-> "", Price |-> 0, Spn |-> "", TaxCode |-> ""]

CreateProduct(categories, name, price, spn) ==
    [NilCreateProduct EXCEPT !.nil = FALSE, !.Categories = categories, !.Name = name,
                             !.Price = price, !.Spn = spn]

MarshalCreateProduct(p) ==
    Object(SliceMember("categories", p.Categories) \o EclassesMember("eclasses", p.Eclasses)
           \o StringMember("manufacturer", p.Manufacturer) \o StringMember("mpn", p.Mpn)
           \o StringMember("name", p.Name) \o StringMember("ou", p.OrderUnit)
           \o NumberMember("price", p.Price) \o StringMember("spn", p.Spn)
           \o StringMember("taxCode", p.TaxCode))

\* ReadJSON of a pointer to a payload with the encoding `value`
ReadJSON(nil, value) == (IF nil THEN << Null >> ELSE value) \o << NL >>

(***************************************************************************)
(* The update builder (products.UpdateService).                            *)
(***************************************************************************)
ProductTemplate ==
    << Lit("/catalogs/"), Var("pin"), Lit("/"), Var("area"), Lit("/products/"), Var("spn") >>

NewUpdateService == [pin |-> "", area |-> "", spn |-> "", product |-> NilUpdateProduct]

SetProduct(b, product) == [b EXCEPT !.product = product]
SetSpn(b, spn) == [b EXCEPT !.spn = spn]

\* the params map UpdateService.Do builds
UpdateParams(b) ==
    Put(Put(Put(EmptyMap, "area", S(b.area)), "pin", S(b.pin)), "spn", S(b.spn))

(***************************************************************************)
(* The create builder (products.CreateService).                            *)
(***************************************************************************)
ProductsTemplate ==
    << Lit("/catalogs/"), Var("pin"), Lit("/"), Var("area"), Lit("/products") >>

NewCreateService == [pin |-> "", area |-> "", product |-> NilCreateProduct]

\* the params map CreateService.Do builds
CreateParams(b) == Put(Put(EmptyMap, "area", S(b.area)), "pin", S(b.pin))

(***************************************************************************)
(* The search builder (products.SearchService).                            *)
(***************************************************************************)
SearchTemplate ==
    << Lit("/catalogs/"), Var("pin"), Lit("/"), Var("area"), Lit("/products"),
       Query(<< "q", "skip", "take", "sort" >>) >>

NewSearchService == [pin |-> "", area |-> "", opt_ |-> EmptyMap]

SetQ(b, q) == [b EXCEPT !.opt_ = Put(@, "q", S(q))]
\* a variant that takes 0 for "not given"
SetSkipUnlessZero(b, skip) == IF skip = 0 THEN b ELSE [b EXCEPT !.opt_ = Put(@, "skip", N(skip))]

SetSkip(b, skip) == [b EXCEPT !.opt_ = Put(@, "skip", N(skip))]
SetSort(b, sort) == [b EXCEPT !.opt_ = Put(@, "sort", S(sort))]
SetTake(b, take) == [b EXCEPT !.opt_ = Put(@, "take", N(take))]

\* the params map SearchService.Do builds
SearchParams(b) ==
    LET p1 == Put(EmptyMap, "area", S(b.area))
        p2 == Put(p1, "pin", S(b.pin))
        p3 == CopyOpt(p2, b.opt_, "q")
        p4 == CopyOpt(p3, b.opt_, "skip")
        p5 == CopyOpt(p4, b.opt_, "sort")
    IN CopyOpt(p5, b.opt_, "take")

(***************************************************************************)
(* A Do, from the request it has built on: the transport either fails or   *)
(* answers with a status and a body; the response is checked, decoded and  *)
(* its body closed.  tr = [fail, StatusCode, data, avail, ahead] is what   *)
(* the transport and the network do in this call.  T is the result type,   *)
(* "" for the Do methods that return an error only.                        *)
(***************************************************************************)
NilResult == [nil |-> TRUE, Kind |-> "", PageToken |-> "", Items |-> << >>, Done |-> FALSE]

Result(r) ==
    [nil |-> FALSE, Kind |-> r.Kind, PageToken |-> r.PageToken, Items |-> r.Items,
     Done |-> r.Done]

\* the Service the operations run on: BaseURL, User and Password (its
\* client is the transport)
VARIABLE service

\* New(client)
NewService == [BaseURL |-> "https://store.meplato.com/api/v2", User |-> "", Password |-> ""]

\* base64.StdEncoding.EncodeToString of user + ":" + pass
Base64Encode(user, pass) ==
    CASE user = "me" /\ pass = "secret" -> "bWU6c2VjcmV0"
      [] user = "me" /\ pass = "" -> "bWU6"
      [] user = "" /\ pass = "secret" -> "OnNlY3JldA=="
      [] user = "" /\ pass = "" -> "Og=="
      [] OTHER -> "?"

\* meplatoapi.HTTPBasicAuthorizationHeader
HTTPBasicAuthorizationHeader(user, pass) == << "Basic ", Base64Encode(user, pass) >>

\* a variant that asks for both a user and a password
HasBothCredentials(s) == s.User # "" /\ s.Password # ""

\* if s.s.User != "" || s.s.Password != ""
HasCredentials(s) == s.User # "" \/ s.Password # ""

\* the headers a Do sets on its request
Headers(s) ==
    [h \in {"Accept", "Content-Type", "User-Agent"}
           \cup (IF HasCredentials(s) THEN {"Authorization"} ELSE {}) |->
       CASE h = "Accept" -> << "application/json" >>
         [] h = "Content-Type" -> << "application/json" >>
         [] h = "User-Agent" -> << "meplato-store-go-client/", "2.0" >>
         [] OTHER -> HTTPBasicAuthorizationHeader(s.User, s.Password)]

\* a request with a body (<< >> for "var body io.Reader", no body)
RequestWithBody(method, path, params, body) ==
    [Method |-> method, URL |-> << service.BaseURL >> \o path, Path |-> path,
     Params |-> params, Body |-> body, Header |-> Headers(service)]

Request(method, path, params) == RequestWithBody(method, path, params, << >>)

\* a response: its status, its body (data, of which the network delivers the
\* first avail tokens), how far the body has been read and how often closed
NoResponse ==
    [recv |-> FALSE, StatusCode |-> 0, data |-> << >>, avail |-> 0, pos |-> 0, closed |-> 0]

Response(StatusCode, data, avail) ==
    [recv |-> TRUE, StatusCode |-> StatusCode, data |-> data, avail |-> avail, pos |-> 0,
     closed |-> 0]

\* meplatoapi.CloseBody
CloseBody(r) == IF ~r.recv THEN r ELSE [r EXCEPT !.closed = @ + 1]

\* s.s.client.Do(req): the requests this call hands to the transport
Send(req) == << req >>

\* a variant that returns the allocated result along with the error
FailWithResult(e) ==
    [ret |-> [nil |-> FALSE, Kind |-> "", PageToken |-> "", Items |-> << >>, Done |-> FALSE],
     err |-> e]

\* return nil, err
Fail(e) == [ret |-> NilResult, err |-> e]

\* ret := new(T); json.NewDecoder(res.Body).Decode(ret), d its outcome
AfterDecode(r0, d) ==
    IF d.err # "nil"
    THEN Fail(OtherError(d.err)) @@ [chk |-> Nil, res |-> [r0 EXCEPT !.pos = d.pos]]
    ELSE [ret |-> Result(d.ret), err |-> Nil, chk |-> Nil, res |-> [r0 EXCEPT !.pos = d.pos]]

\* the statements after "defer meplatoapi.CloseBody(res)"; c is what
\* CheckResponse returns
AfterCheck(T, tr, r0, c) ==
    IF c.err.kind # "nil"
    THEN Fail(c.err) @@ [chk |-> c.err, res |-> [r0 EXCEPT !.pos = c.pos]]
    ELSE IF T = ""
    THEN [ret |-> NilResult, err |-> Nil, chk |-> Nil, res |-> r0]
    ELSE AfterDecode(r0, Decode(T, tr.data, tr.avail, tr.ahead))

AfterDefer(T, tr) ==
    AfterCheck(T, tr, Response(tr.StatusCode, tr.data, tr.avail),
               CheckResponse(tr.StatusCode, tr.data, tr.avail))

\* a variant that closes the body on the success path only
ClosedOnSuccess(a) == IF a.err.kind = "nil" THEN [a EXCEPT !.res = CloseBody(a.res)] ELSE a

\* the deferred CloseBody runs on every return that follows the defer
Deferred(a) == [a EXCEPT !.res = CloseBody(a.res)]

\* a variant that sends the request again when the transport fails
ExecuteWithRetry(T, req, tr) ==
    IF tr.fail
    THEN Fail(OtherError("transport"))
         @@ [chk |-> Nil, res |-> NoResponse, sent |-> Send(req) \o Send(req)]
    ELSE Deferred(AfterDefer(T, tr)) @@ [sent |-> Send(req)]

\* from s.s.client.Do(req) to the return
Execute(T, req, tr) ==
    IF tr.fail
    THEN Fail(OtherError("transport")) @@ [chk |-> Nil, res |-> NoResponse, sent |-> Send(req)]
    ELSE Deferred(AfterDefer(T, tr)) @@ [sent |-> Send(req)]

\* MeService.Do
MeDoCall(tr) == Execute("MeResponse", Request("GET", << "/" >>, EmptyMap), tr)

\* PingService.Do
PingDoCall(tr) == Execute("", Request("HEAD", << "/" >>, EmptyMap), tr)

\* the error of Expand: Message names the variable without a value
ExpandError(name) == [OtherError("expand") EXCEPT !.Message = name]

\* a variant that goes on to send the request when Expand has failed
DoIgnoringExpandError(T, method, params, body, e, tr) ==
    Execute(T, RequestWithBody(method, e.path, params, body), tr)

\* a Do from "path, err := meplatoapi.Expand(template, params)" on; e is
\* what Expand returns for params
DoExpanded(T, method, params, body, e, tr) ==
    IF e.err # ""
    THEN Fail(ExpandError(e.err)) @@ [chk |-> Nil, res |-> NoResponse, sent |-> << >>]
    ELSE Execute(T, RequestWithBody(method, e.path, params, body), tr)

\* ScrollService.Do
ScrollExpanded(params, e, tr) == DoExpanded("ScrollResponse", "GET", params, << >>, e, tr)

ScrollDoCall(b, tr) ==
    ScrollExpanded(ScrollParams(b), Expand(ScrollTemplate, ScrollParams(b)), tr)

\* a variant that checks the required SPN before it sends anything
CreateDoCallValidating(b, tr) ==
    IF ~b.product.nil /\ b.product.Spn = ""
    THEN Fail(OtherError("invalid")) @@ [chk |-> Nil, res |-> NoResponse, sent |-> << >>]
    ELSE DoExpanded("CreateProductResponse", "POST", CreateParams(b),
                    ReadJSON(b.product.nil, MarshalCreateProduct(b.product)),
                    Expand(ProductsTemplate, CreateParams(b)), tr)

\* CreateService.Do
CreateDoCall(b, tr) ==
    DoExpanded("CreateProductResponse", "POST", CreateParams(b),
               ReadJSON(b.product.nil, MarshalCreateProduct(b.product)),
               Expand(ProductsTemplate, CreateParams(b)), tr)

\* UpdateService.Do
UpdateDoCall(b, tr) ==
    DoExpanded("UpdateProductResponse", "POST", UpdateParams(b),
               ReadJSON(b.product.nil, MarshalUpdateProduct(b.product)),
               Expand(ProductTemplate, UpdateParams(b)), tr)

\* SearchService.Do
SearchDoCall(b, tr) ==
    DoExpanded("SearchResponse", "GET", SearchParams(b), << >>,
               Expand(SearchTemplate, SearchParams(b)), tr)

(***************************************************************************)
(* The inputs: what a server can answer.                                   *)
(***************************************************************************)
Statuses == {100, 199, 200, 201, 299, 300, 400, 401, 500}

\* {"error":{ members }}
ErrorBody(members) == << LB, S("error"), CO, LB >> \o members \o << RB, RB >>

\* {"error":{"code":400,"message":"SPN must not be blank"}}
BlankSpnBody ==
    ErrorBody(<< S("code"), CO, N(400), CM, S("message"), CO, S("SPN must not be blank") >>)

\* {"error":{"message":"Unauthorized"}}
UnauthorizedBody == ErrorBody(<< S("message"), CO, S("Unauthorized") >>)

\* {"error":{"code":0,"message":"m","details":["d1","d2"]}}
DetailsBody ==
    ErrorBody(<< S("code"), CO, N(0), CM, S("message"), CO, S("m"), CM,
                 S("details"), CO, LA, S("d1"), CM, S("d2"), RA >>)

\* {"error":{"code":42,"Body":"spoof"}}
SpoofBody == ErrorBody(<< S("code"), CO, N(42), CM, S("Body"), CO, S("spoof") >>)

\* {"kind":"store#me"}
MeBody == << LB, S("kind"), CO, S("store#me"), RB >>

ErrorBodies ==
    { BlankSpnBody, UnauthorizedBody, DetailsBody, SpoofBody,
      << >>,                                              \* no body at all
      << X("Bad Gateway") >>,                             \* plain text
      << LB, RB >>,                                       \* {}
      << LB, S("error"), CO, Null, RB >>,                 \* {"error":null}
      << LB, S("error"), CO, S("oops"), RB >>,            \* {"error":"oops"}
      ErrorBody(<< S("code"), CO, S("x") >>),             \* {"error":{"code":"x"}}
      UnauthorizedBody \o << X("trailer") >>,             \* a value, then text
      << LB, S("error"), CO, LB, S("code"), CO >> }       \* cut short

ResultBodies ==
    { MeBody,
      MeBody \o << X("trailer") >>,                       \* a value, then text
      << LB, S("kind"), CO, N(5), RB >>,                  \* {"kind":5}
      << LB, S("kind"), S("store#me"), RB >>,             \* {"kind" "store#me"}
      << Null >>,                                         \* null
      << LA, RA >> }                                      \* []

Bodies == ErrorBodies \cup ResultBodies

\* what the transport and the network do in one call
Transports(statuses, bodies) ==
    { [fail |-> TRUE, StatusCode |-> 0, data |-> << >>, avail |-> 0, ahead |-> 0] }
    \cup
    UNION { { [fail |-> FALSE, StatusCode |-> sc, data |-> d, avail |-> av, ahead |-> ah] :
                 av \in 0..Len(d), ah \in 0..MaxAhead } : sc \in statuses, d \in bodies }

PINs == {"AD8CCDD5F9"}
Areas == {"work", "live"}
Tokens == {"", "T1", "T2"}
Modes == {"diff"}
Versions == {2}
ItemLists == { << >>, << "A" >>, << "B", "C" >> }

RECURSIVE ItemTokens(_, _)
ItemTokens(items, k) ==
    IF k > Len(items) THEN << >>
    ELSE (IF k > 1 THEN << CM >> ELSE << >>)
         \o << LB, S("spn"), CO, S(items[k]), RB >> \o ItemTokens(items, k + 1)

\* {"kind":"store#products/scroll","items":[...],"pageToken":"..."}; the
\* server leaves an empty pageToken out
PageBody(items, token) ==
    << LB, S("kind"), CO, S("store#products/scroll"), CM, S("items"), CO, LA >>
    \o ItemTokens(items, 1) \o << RA >>
    \o (IF token = "" THEN << >> ELSE << CM, S("pageToken"), CO, S(token) >>)
    \o << RB >>

PageBodies == { PageBody(items, token) : items \in ItemLists, token \in Tokens }

Qs == {"a b"}
Skips == {10, 0}
Sorts == {"name", ""}
Takes == {5}

\* {"kind":"store#products/search","items":[{"spn":"A"}]}
SearchBody ==
    << LB, S("kind"), CO, S("store#products/search"), CM, S("items"), CO, LA,
       LB, S("spn"), CO, S("A"), RB, RA, RB >>

\* the answers to a search request
SearchTransports ==
    { [fail |-> TRUE, StatusCode |-> 0, data |-> << >>, avail |-> 0, ahead |-> 0],
      [fail |-> FALSE, StatusCode |-> 200, data |-> SearchBody,
       avail |-> Len(SearchBody), ahead |-> 0],
      [fail |-> FALSE, StatusCode |-> 401, data |-> UnauthorizedBody,
       avail |-> Len(UnauthorizedBody), ahead |-> 0] }

Spns == {"1000"}

\* the update payloads: no payload, and every field nil, empty or with a value
UpdateProducts ==
    { NilUpdateProduct }
    \cup { UpdateProduct(categories, name, price) :
              categories \in {NilSlice, Slice(<< >>), Slice(<< "c1", "c2" >>)},
              name \in {NilPointer, PointerTo(S("")), PointerTo(S("X"))},
              price \in {NilPointer, PointerTo(N(0)), PointerTo(N(5))} }

\* the create payloads: no payload, and the product of the test with and
\* without its SPN
CreateProducts ==
    { NilCreateProduct }
    \cup { CreateProduct(categories, "Produkt 1000", 5, spn) :
              categories \in {NilSlice, Slice(<< "c1", "c2" >>)}, spn \in {""} \cup Spns }

\* {"kind":"store#productUpdated"}
EditedBody == << LB, S("kind"), CO, S("store#productUpdated"), RB >>

\* the answers to a create or update request
EditTransports ==
    { [fail |-> TRUE, StatusCode |-> 0, data |-> << >>, avail |-> 0, ahead |-> 0],
      [fail |-> FALSE, StatusCode |-> 200, data |-> EditedBody,
       avail |-> Len(EditedBody), ahead |-> 0],
      [fail |-> FALSE, StatusCode |-> 400, data |-> BlankSpnBody,
       avail |-> Len(BlankSpnBody), ahead |-> 0] }

Users == {"", "me"}
Passwords == {"", "secret"}

\* the templates and the parameter sets Expand is called with: any subset
\* of the names, each with a value, q also with the empty string
ParamNames == {"pin", "area", "q", "skip", "take", "sort"}

ParamValue(name) ==
    CASE name = "pin" -> S("AD8CCDD5F9")
      [] name = "area" -> S("work")
      [] name = "q" -> S("a b")
      [] name = "skip" -> N(10)
      [] name = "take" -> N(5)
      [] OTHER -> S("name")

ParamSets ==
    { [x \in D |-> ParamValue(x)] : D \in SUBSET ParamNames }
    \cup { [x \in D |-> IF x = "q" THEN S("") ELSE ParamValue(x)] :
              D \in { E \in SUBSET ParamNames : "q" \in E } }

\* the answers to a scroll request: a page, or an error
ScrollTransports ==
    { [fail |-> TRUE, StatusCode |-> 0, data |-> << >>, avail |-> 0, ahead |-> 0] }
    \cup { [fail |-> FALSE, StatusCode |-> 200, data |-> d, avail |-> Len(d), ahead |-> 0] :
              d \in PageBodies }
    \cup { [fail |-> FALSE, StatusCode |-> 200, data |-> PageBody(<< "A" >>, "T1"),
            avail |-> 5, ahead |-> 0],
           [fail |-> FALSE, StatusCode |-> 401, data |-> UnauthorizedBody,
            avail |-> Len(UnauthorizedBody), ahead |-> 0] }

(***************************************************************************)
(* The upload command (uploadCommand.Run).  The input is a CSV file read   *)
(* record by record; a row is the struct the cells of a record are parsed  *)
(* into, its pointer fields as in the payloads.  Dereferencing a nil       *)
(* pointer panics.                                                         *)
(***************************************************************************)
\* the keys of rowHandlers
Columns ==
    {"MODE", "SPN", "NAME", "PRICE", "ORDER_UNIT", "MPN", "MANUFACTURER",
     "ECLASS_VERSION", "ECLASS_CODE", "TAX_CODE"}

\* strings.ToUpper on the cells of the MODE column
ToUpper(cell) ==
    CASE cell = "c" -> "C"
      [] cell = "u" -> "U"
      [] cell = "d" -> "D"
      [] OTHER -> cell

\* strconv.ParseFloat(cell, 64)
ParseFloat(cell) ==
    CASE cell = "5" -> [err |-> FALSE, v |-> 5]
      [] cell = "0" -> [err |-> FALSE, v |-> 0]
      [] cell = "-1" -> [err |-> FALSE, v |-> 0 - 1]
      [] OTHER -> [err |-> TRUE, v |-> 0]

\* var r row; r.Line = line
NewRow(line) ==
    [Line |-> line, Mode |-> "", SPN |-> "", Name |-> NilPointer, Price |-> NilPointer,
     OrderUnit |-> NilPointer, MPN |-> NilPointer, Manufacturer |-> NilPointer,
     EclassVersion |-> NilPointer, EclassCode |-> NilPointer, TaxCode |-> NilPointer]

\* what a handler returns: the error ("" for nil) and the row it has written to
Handled(r) == [err |-> "", r |-> r]

handleMode(r, cell) == Handled([r EXCEPT !.Mode = ToUpper(cell)])
handleSPN(r, cell) == Handled([r EXCEPT !.SPN = cell])

\* a variant that stores the cell whether it is blank or not
handleNameAlways(r, cell) == Handled([r EXCEPT !.Name = PointerTo(S(cell))])

handleName(r, cell) == Handled(IF cell # "" THEN [r EXCEPT !.Name = PointerTo(S(cell))] ELSE r)

handlePrice(r, cell) ==
    IF cell = "" THEN Handled(r)
    ELSE IF ParseFloat(cell).err THEN [err |-> "price is not a number", r |-> r]
    ELSE Handled([r EXCEPT !.Price = PointerTo(N(ParseFloat(cell).v))])

handleOrderUnit(r, cell) ==
    Handled(IF cell # "" THEN [r EXCEPT !.OrderUnit = PointerTo(S(cell))] ELSE r)
handleMPN(r, cell) == Handled(IF cell # "" THEN [r EXCEPT !.MPN = PointerTo(S(cell))] ELSE r)
handleManufacturer(r, cell) ==
    Handled(IF cell # "" THEN [r EXCEPT !.Manufacturer = PointerTo(S(cell))] ELSE r)
handleEclassVersion(r, cell) ==
    Handled(IF cell # "" THEN [r EXCEPT !.EclassVersion = PointerTo(S(cell))] ELSE r)
handleEclassCode(r, cell) ==
    Handled(IF cell # "" THEN [r EXCEPT !.EclassCode = PointerTo(S(cell))] ELSE r)
handleTaxCode(r, cell) ==
    Handled(IF cell # "" THEN [r EXCEPT !.TaxCode = PointerTo(S(cell))] ELSE r)

\* rowHandlers[column](r, cell)
rowHandlers(column, r, cell) ==
    CASE column = "MODE" -> handleMode(r, cell)
      [] column = "SPN" -> handleSPN(r, cell)
      [] column = "NAME" -> handleName(r, cell)
      [] column = "PRICE" -> handlePrice(r, cell)
      [] column = "ORDER_UNIT" -> handleOrderUnit(r, cell)
      [] column = "MPN" -> handleMPN(r, cell)
      [] column = "MANUFACTURER" -> handleManufacturer(r, cell)
      [] column = "ECLASS_VERSION" -> handleEclassVersion(r, cell)
      [] column = "ECLASS_CODE" -> handleEclassCode(r, cell)
      [] OTHER -> handleTaxCode(r, cell)

\* for i, cell := range header: the first cell that has no handler, 0 if none
InvalidColumn(header) ==
    IF \A i \in 1..Len(header) : header[i] \in Columns THEN 0
    ELSE CHOOSE i \in 1..Len(header) :
            header[i] \notin Columns /\ \A j \in 1..(i - 1) : header[j] \in Columns

\* for i, cell := range record: the handler of column i on cell i, up to the
\* first error
RECURSIVE HandleCells(_, _, _, _)
HandleCells(header, record, i, r) ==
    IF i > Len(record) THEN Handled(r)
    ELSE IF i > Len(header) THEN [err |-> "no handler for index", r |-> r]
    ELSE IF rowHandlers(header[i], r, record[i]).err # ""
         THEN rowHandlers(header[i], r, record[i])
    ELSE HandleCells(header, record, i + 1, rowHandlers(header[i], r, record[i]).r)

\* a variant that checks the mode and the SPN only
ValidateModeAndSPN(r) ==
    IF r.Mode \notin {"C", "U", "D"} THEN "unknown mode"
    ELSE IF r.SPN = "" THEN "no SPN specified"
    ELSE ""

\* row.Validate: the error, "" for nil
Validate(r) ==
    IF r.Mode \notin {"C", "U", "D"} THEN "unknown mode"
    ELSE IF r.SPN = "" THEN "no SPN specified"
    ELSE IF r.Mode = "C" /\ (r.Name.nil \/ r.Name.v.s = "") THEN "no name specified"
    ELSE IF r.Mode = "C" /\ (r.Price.nil \/ r.Price.v.n < 0) THEN "no price specified"
    ELSE IF r.Mode = "C" /\ (r.OrderUnit.nil \/ r.OrderUnit.v.s = "") THEN "no order unit specified"
    ELSE ""

\* if r.EclassVersion != nil && r.EclassCode != nil { p.Eclasses = append(...) }
RowEclasses(r) ==
    IF ~r.EclassVersion.nil /\ ~r.EclassCode.nil
    THEN << Eclass(r.EclassVersion.v.s, r.EclassCode.v.s) >>
    ELSE << >>

\* case "C": the pointers the composite literal dereferences
CreateDereferences(r) == << r.Name, r.Price, r.OrderUnit >>

Panics(ptrs) == \E i \in 1..Len(ptrs) : ptrs[i].nil

\* case "C": the product built from a row whose Name, Price and OrderUnit
\* are not nil
RowCreateProduct(r) ==
    [NilCreateProduct EXCEPT
       !.nil = FALSE, !.Spn = r.SPN, !.Name = r.Name.v.s, !.Price = r.Price.v.n,
       !.OrderUnit = r.OrderUnit.v.s,
       !.Mpn = IF r.MPN.nil THEN "" ELSE r.MPN.v.s,
       !.Manufacturer = IF r.Manufacturer.nil THEN "" ELSE r.Manufacturer.v.s,
       !.Eclasses = RowEclasses(r),
       !.TaxCode = IF r.TaxCode.nil THEN "" ELSE r.TaxCode.v.s]

\* case "U": the product built from a row
RowUpdateProduct(r) ==
    [NilUpdateProduct EXCEPT
       !.nil = FALSE, !.Name = r.Name, !.Price = r.Price, !.OrderUnit = r.OrderUnit,
       !.Mpn = r.MPN, !.Manufacturer = r.Manufacturer, !.TaxCode = r.TaxCode,
       !.Eclasses = RowEclasses(r)]

\* the delete builder (products.DeleteService) and its Do
NewDeleteService == [pin |-> "", area |-> "", spn |-> ""]

DeleteDoCall(b, tr) ==
    DoExpanded("", "DELETE", UpdateParams(b), << >>, Expand(ProductTemplate, UpdateParams(b)), tr)

\* the outcomes of one turn of the loop that come before the API call
NoCallMade(kind, e) ==
    [kind |-> kind, err |-> e, sent |-> << >>]

\* the outcome of the API call of a row, d what its Do returned
Called(name, d) ==
    [kind |-> IF d.err.kind # "nil" THEN "failed" ELSE "rows",
     err |-> IF d.err.kind # "nil" THEN name ELSE "",
     sent |-> d.sent]

\* switch r.Mode: the API call of a row that has passed Validate
RowCall(pin, r, tr) ==
    CASE r.Mode = "C" ->
           IF Panics(CreateDereferences(r)) THEN NoCallMade("panic", "nil pointer dereference")
           ELSE Called("create failed",
                       CreateDoCall(SetProduct(SetArea(SetPIN(NewCreateService, pin), "work"),
                                               RowCreateProduct(r)), tr))
      [] r.Mode = "U" ->
           Called("update failed",
                  UpdateDoCall(SetProduct(SetSpn(SetArea(SetPIN(NewUpdateService, pin), "work"),
                                                 r.SPN), RowUpdateProduct(r)), tr))
      [] r.Mode = "D" ->
           Called("delete failed",
                  DeleteDoCall(SetSpn(SetArea(SetPIN(NewDeleteService, pin), "work"), r.SPN), tr))
      [] OTHER -> NoCallMade("rows", "")

\* the turn from the parsed row on: h is what the handlers returned
RowTurn(pin, h, v, tr) ==
    IF h.err # "" THEN NoCallMade("failed", h.err)
    ELSE IF v # "" THEN NoCallMade("failed", v)
    ELSE RowCall(pin, h.r, tr)

\* the header rows of the input files
HeaderRows ==
    { << "MODE", "SPN", "NAME", "PRICE", "ORDER_UNIT" >>,
      << "MODE", "SPN", "NAME", "MPN", "MANUFACTURER", "TAX_CODE" >>,
      << "SPN", "MODE", "ECLASS_VERSION", "ECLASS_CODE" >>,
      << "NAME", "PRICE" >>,
      << "SPN", "NAME" >>,
      << "MODE", "NAME" >>,
      << "MODE", "SPN", "COLOR" >> }

\* the cells of a column in the input files
Cells(column) ==
    CASE column = "MODE" -> {"C", "U", "D", "u", "X"}
      [] column = "SPN" -> {"1000", ""}
      [] column = "NAME" -> {"Pen", ""}
      [] column = "PRICE" -> {"5", "0", "-1", "abc", ""}
      [] column = "ORDER_UNIT" -> {"PCE", ""}
      [] column = "MPN" -> {"M1", ""}
      [] column = "MANUFACTURER" -> {"ACME", ""}
      [] column = "ECLASS_VERSION" -> {"7.0", ""}
      [] column = "ECLASS_CODE" -> {"19010203", ""}
      [] column = "TAX_CODE" -> {"T19", ""}
      [] OTHER -> {""}

\* the records with one cell for each of the first k columns of the header
RECURSIVE Records(_, _)
Records(header, k) ==
    IF k = 0 THEN { << >> }
    ELSE { Append(rec, cell) : rec \in Records(header, k - 1), cell \in Cells(header[k]) }

\* what csvr.Read() returns: a record, io.EOF at the end of the input, or
\* the error of a line that is no record of the header's length
ReadError(e) == [err |-> e, record |-> << >>]
Read(record) == [err |-> "", record |-> record]

HeaderReads == { ReadError("EOF") } \cup { Read(header) : header \in HeaderRows }

RecordReads(header) ==
    { ReadError("EOF"), ReadError("wrong number of fields") }
    \cup { Read(record) : record \in Records(header, Len(header)) }

\* the command before it runs
NoUpload ==
    [pc |-> "idle", pin |-> "", header |-> << >>, line |-> 0, record |-> << >>,
     row |-> NewRow(0), sent |-> << >>, ncalls |-> 0, err |-> ""]

UploadFailed(u, e) == [u EXCEPT !.pc = "failed", !.err = e, !.sent = << >>]

\* uploadCommand.Run up to the loop: the argument, the header and the
\* handlers of its columns
UploadStart(args, read) ==
    IF Len(args) # 1 THEN UploadFailed(NoUpload, "no pin specified")
    ELSE IF read.err # "" THEN UploadFailed(NoUpload, read.err)
    ELSE IF Len(read.record) = 0
         THEN UploadFailed([NoUpload EXCEPT !.header = read.record], "no header row")
    ELSE IF InvalidColumn(read.record) # 0
         THEN UploadFailed([NoUpload EXCEPT !.header = read.record], "found invalid column name")
    ELSE [NoUpload EXCEPT !.pc = "rows", !.pin = args[1], !.header = read.record, !.line = 1]

\* the end of a turn, t what it came to
AfterRow(u, h, t) ==
    [u EXCEPT !.pc = t.kind, !.err = t.err, !.sent = t.sent, !.ncalls = @ + Len(t.sent),
              !.row = h.r]

\* one turn of the loop: a record is read, parsed, validated and sent
UploadTurn(u, read, tr) ==
    IF read.err = "EOF" THEN [u EXCEPT !.pc = "done", !.sent = << >>]
    ELSE IF read.err # "" THEN UploadFailed(u, read.err)
    ELSE AfterRow([u EXCEPT !.line = @ + 1, !.record = read.record],
                  HandleCells(u.header, read.record, 1, NewRow(u.line + 1)),
                  RowTurn(u.pin, HandleCells(u.header, read.record, 1, NewRow(u.line + 1)),
                          Validate(HandleCells(u.header, read.record, 1, NewRow(u.line + 1)).r),
                          tr))

(***************************************************************************)
(* The publish command (publishCommand.Run) and the two calls it makes     *)
(* (catalogs.PublishService, catalogs.PublishStatusService).               *)
(***************************************************************************)
\* "/catalogs/{pin}/publish" and "/catalogs/{pin}/publish/status"
PublishTemplate == << Lit("/catalogs/"), Var("pin"), Lit("/publish") >>
PublishStatusTemplate == << Lit("/catalogs/"), Var("pin"), Lit("/publish/status") >>

NewPublishService == [pin |-> ""]

\* the params map both Do methods build
PublishParams(b) == Put(EmptyMap, "pin", S(b.pin))

\* PublishService.Do
PublishDoCall(b, tr) ==
    DoExpanded("PublishResponse", "POST", PublishParams(b), << >>,
               Expand(PublishTemplate, PublishParams(b)), tr)

\* PublishStatusService.Do
PublishStatusDoCall(b, tr) ==
    DoExpanded("PublishStatusResponse", "GET", PublishParams(b), << >>,
               Expand(PublishStatusTemplate, PublishParams(b)), tr)

\* {"kind":"store#catalogPublish"}
PublishBody == << LB, S("kind"), CO, S("store#catalogPublish"), RB >>

\* {"kind":"store#catalogPublishStatus","done":...}
StatusBody(done) ==
    << LB, S("kind"), CO, S("store#catalogPublishStatus"), CM, S("done"), CO, B(done), RB >>

\* {"kind":"store#catalogPublishStatus"}, and a status whose done is a string
StatusBodies ==
    { StatusBody(TRUE), StatusBody(FALSE),
      << LB, S("kind"), CO, S("store#catalogPublishStatus"), RB >>,
      << LB, S("done"), CO, S("yes"), RB >> }

Answer(sc, d, avail) == [fail |-> FALSE, StatusCode |-> sc, data |-> d, avail |-> avail, ahead |-> 0]

NoAnswer == [fail |-> TRUE, StatusCode |-> 0, data |-> << >>, avail |-> 0, ahead |-> 0]

PublishTransports ==
    { NoAnswer, Answer(200, PublishBody, Len(PublishBody)), Answer(200, PublishBody, 3),
      Answer(401, UnauthorizedBody, Len(UnauthorizedBody)) }

StatusTransports ==
    { NoAnswer, Answer(500, << >>, 0), Answer(200, StatusBody(TRUE), 5) }
    \cup { Answer(200, d, Len(d)) : d \in StatusBodies }

\* the command before it runs; last is what its last Do returned
NoPublish ==
    [pc |-> "idle", pin |-> "", calls |-> << >>, last |-> [err |-> "nil", Done |-> FALSE]]

\* what the command keeps of a Do
Outcome(d) == [err |-> d.err.kind, Done |-> d.ret.Done]

\* a variant that starts polling whatever Publish returned
PublishedAnyway(d) == "poll"

\* _, err = service.Publish().PIN(pin).Do(...); if err != nil { return err }
Published(d) == IF d.err.kind # "nil" THEN "failed" ELSE "poll"

\* status, err := ...Do(...); if err != nil { return err };
\* if status.Done { break }
Polled(d) ==
    IF d.err.kind # "nil" THEN "failed"
    ELSE IF d.ret.Done THEN "done"
    ELSE "poll"

\* publishCommand.Run up to the loop, d what Publish returned
PublishStart(args, d) ==
    IF Len(args) # 1 THEN [NoPublish EXCEPT !.pc = "failed", !.last.err = "no pin specified"]
    ELSE [NoPublish EXCEPT !.pc = Published(d), !.pin = args[1], !.calls = d.sent,
                           !.last = Outcome(d)]

\* one turn of the loop, d what PublishStatus returned
PublishTurn(u, d) ==
    [u EXCEPT !.pc = Polled(d), !.calls = @ \o d.sent, !.last = Outcome(d)]

(***************************************************************************)
(* Several goroutines use one Service: each calls service.Scroll(), the    *)
(* setters of the builder it was given, and Do.  A builder is an object on *)
(* the heap; a goroutine holds a reference to it.  Do is two steps: it     *)
(* reads its builder and the Service into a request, then it hands the     *)
(* request to the transport and returns.                                   *)
(***************************************************************************)
Goroutines == 1..NProcs

\* a variant that hands every caller the same builder
SharedBuilder(g) == 1

\* rs := &ScrollService{s: s, opt_: make(...)}: the object allocated by the
\* call service.Scroll() of goroutine g
NewBuilder(g) == g

NoGoroutine ==
    [pc |-> "none", ref |-> 0, own |-> NewScrollService, b |-> NewScrollService,
     sent |-> << >>, err |-> "nil"]

NoProcs == [heap |-> [g \in Goroutines |-> NewScrollService],
            proc |-> [g \in Goroutines |-> NoGoroutine]]

\* service.Scroll() in goroutine g
Go(ps, g) ==
    [ps EXCEPT !.heap[NewBuilder(g)] = NewScrollService,
               !.proc[g] = [NoGoroutine EXCEPT !.pc = "building", !.ref = NewBuilder(g)]]

\* a setter called by goroutine g on its builder; own is the builder as
\* the calls of g alone make it
GoPIN(ps, g, pin) ==
    [ps EXCEPT !.heap[ps.proc[g].ref] = SetPIN(@, pin), !.proc[g].own = SetPIN(@, pin)]

GoPageToken(ps, g, t) ==
    [ps EXCEPT !.heap[ps.proc[g].ref] = SetPageToken(@, t),
               !.proc[g].own = SetPageToken(@, t)]

\* Do up to s.s.client.Do(req): the builder is read, the path expanded and
\* the request made from it and the Service
GoBuild(ps, g, d) ==
    [ps EXCEPT !.proc[g].pc = "sending", !.proc[g].b = ps.heap[ps.proc[g].ref],
               !.proc[g].sent = d.sent]

\* Do from s.s.client.Do(req) on, d what it returns
GoReturn(ps, g, d) ==
    [ps EXCEPT !.proc[g].pc = "returned", !.proc[g].err = d.err.kind]

(***************************************************************************)
(* The state.                                                              *)
(***************************************************************************)
VARIABLES
    op,         \* the Do that ran last: "none", "Me", "Ping" or "Scroll"
    sent,       \* the requests that Do handed to the transport
    res,        \* the response it received, with its body's read position
    chk,        \* what CheckResponse returned in it
    ret,        \* the result it returned
    err,        \* the error it returned
    scroll,     \* the scroll builder under construction: << >> or << builder >>
    search,     \* the search builder under construction, likewise
    update,     \* the update builder under construction, likewise
    create,     \* the create builder under construction, likewise
    expanded,   \* a call of meplatoapi.Expand: its arguments and what it returned
    called,     \* the setters of optional parameters called on the builder, in order
    pc,         \* the download command: "idle", "loop", "done", "failed"
    cmd,        \* its pin (args[0]) and area (the -area flag)
    pageToken,  \* its pageToken variable
    n,          \* its count of products
    out,        \* the products it has written
    calls,      \* the requests of its loop
    upload,     \* the upload command: its position, input and last turn
    publish,    \* the publish command: its position and the requests it has sent
    procs       \* the goroutines that share the Service, and their builders

call == << op, sent, res, chk, ret, err >>
builders == << scroll, search, update, create >>
others == << builders, expanded, called >>
download == << pc, cmd, pageToken, n, out, calls >>
programs == << upload, publish, procs >>
commands == << download, service, programs >>
vars ==
    << service, op, sent, res, chk, ret, err, scroll, search, update, create, expanded, called, pc, cmd, pageToken, n, out, calls,
       upload, publish, procs >>

NoCall ==
    /\ op = "none"
    /\ sent = << >>
    /\ res = NoResponse
    /\ chk = Nil
    /\ ret = NilResult
    /\ err = Nil

NoExpand ==
    [called |-> FALSE, template |-> << >>, params |-> EmptyMap, path |-> << >>, err |-> ""]

Init ==
    /\ service = NewService
    /\ NoCall
    /\ expanded = NoExpand
    /\ called = << >>
    /\ scroll = << >>
    /\ search = << >>
    /\ update = << >>
    /\ create = << >>
    /\ upload = NoUpload
    /\ publish = NoPublish
    /\ procs = NoProcs
    /\ pc = "idle"
    /\ cmd = [pin |-> "", area |-> "live"]
    /\ pageToken = ""
    /\ n = 0
    /\ out = << >>
    /\ calls = << >>

\* the outcome r of a Do becomes the last call
Returned(name, r) ==
    /\ op' = name
    /\ sent' = r.sent
    /\ res' = r.res
    /\ chk' = r.chk
    /\ ret' = r.ret
    /\ err' = r.err

(***************************************************************************)
(* The operations of the library.  A run is one use of the client: one Do  *)
(* on the service, one builder chain ending in its Do, or the download     *)
(* command.  The client keeps nothing between two calls (a Do reads the    *)
(* Service and its own builder only), so a later call starts from the      *)
(* state the first one starts from.                                        *)
(***************************************************************************)
Unused ==
    /\ pc = "idle" /\ op = "none"
    /\ scroll = << >> /\ search = << >> /\ update = << >> /\ create = << >>
    /\ ~expanded.called
    /\ upload.pc = "idle" /\ publish.pc = "idle"
    /\ \A g \in Goroutines : procs.proc[g].pc = "none"

\* the caller configures the Service it has made before it uses it
\* (GetProductsService: service.User = getUsername(), service.Password =
\* getPassword(), the credentials of the environment)
Configure ==
    /\ Unused /\ service = NewService
    /\ \E user \in Users, pass \in Passwords :
          service' = [service EXCEPT !.User = user, !.Password = pass]
    /\ UNCHANGED << call, others, download, programs >>

MeDo ==
    /\ Unused
    /\ \E tr \in Transports(Statuses, Bodies) : Returned("Me", MeDoCall(tr))
    /\ UNCHANGED << others, commands >>

PingDo ==
    /\ Unused
    /\ \E tr \in Transports(Statuses, Bodies) : Returned("Ping", PingDoCall(tr))
    /\ UNCHANGED << others, commands >>

\* service.Scroll()
Scroll ==
    /\ Unused
    /\ scroll' = << NewScrollService >>
    /\ UNCHANGED << call, search, update, create, expanded, called, commands >>

Setter(b) ==
    /\ pc = "idle" /\ op = "none" /\ scroll # << >>
    /\ scroll' = << b >>
    /\ UNCHANGED << call, search, update, create, expanded, commands >>

\* the call of the setter of the optional parameter `name` with value v
Logged(name, v) ==
    /\ Len(called) < MaxSetters
    /\ called' = Append(called, [name |-> name, value |-> v])

ScrollArea == \E area \in Areas : Setter(SetArea(scroll[1], area)) /\ UNCHANGED called
ScrollMode ==
    \E mode \in Modes : Setter(SetMode(scroll[1], mode)) /\ Logged("mode", S(mode))
ScrollPageToken ==
    \E t \in Tokens : Setter(SetPageToken(scroll[1], t)) /\ Logged("pageToken", S(t))
ScrollPIN == \E pin \in PINs : Setter(SetPIN(scroll[1], pin)) /\ UNCHANGED called
ScrollVersion ==
    \E version \in Versions :
       Setter(SetVersion(scroll[1], version)) /\ Logged("version", N(version))

\* the Do that ends the builder chain
ScrollDo ==
    /\ pc = "idle" /\ op = "none" /\ scroll # << >>
    /\ \E tr \in ScrollTransports : Returned("Scroll", ScrollDoCall(scroll[1], tr))
    /\ UNCHANGED << others, commands >>

\* meplatoapi.Expand(path, expansions)
ExpandCall ==
    /\ Unused
    /\ \E template \in {CatalogTemplate, CatalogsTemplate, SearchTemplate, ScrollTemplate},
          params \in ParamSets :
          expanded' = [called |-> TRUE, template |-> template, params |-> params,
                       path |-> Expand(template, params).path,
                       err |-> Expand(template, params).err]
    /\ UNCHANGED << call, builders, called, commands >>

\* service.Search()
Search ==
    /\ Unused
    /\ search' = << NewSearchService >>
    /\ UNCHANGED << call, scroll, update, create, expanded, called, commands >>

SearchSetter(b) ==
    /\ pc = "idle" /\ op = "none" /\ search # << >>
    /\ search' = << b >>
    /\ UNCHANGED << call, scroll, update, create, expanded, commands >>

SearchArea == \E area \in Areas : SearchSetter(SetArea(search[1], area)) /\ UNCHANGED called
SearchPIN == \E pin \in PINs : SearchSetter(SetPIN(search[1], pin)) /\ UNCHANGED called
SearchQ == \E q \in Qs : SearchSetter(SetQ(search[1], q)) /\ Logged("q", S(q))
SearchSkip ==
    \E skip \in Skips : SearchSetter(SetSkip(search[1], skip)) /\ Logged("skip", N(skip))
SearchSort ==
    \E sort \in Sorts : SearchSetter(SetSort(search[1], sort)) /\ Logged("sort", S(sort))
SearchTake ==
    \E take \in Takes : SearchSetter(SetTake(search[1], take)) /\ Logged("take", N(take))

SearchDo ==
    /\ pc = "idle" /\ op = "none" /\ search # << >>
    /\ \E tr \in SearchTransports : Returned("Search", SearchDoCall(search[1], tr))
    /\ UNCHANGED << others, commands >>

\* service.Create()
Create ==
    /\ Unused
    /\ create' = << NewCreateService >>
    /\ UNCHANGED << call, scroll, search, update, expanded, called, commands >>

CreateSetter(b) ==
    /\ pc = "idle" /\ op = "none" /\ create # << >>
    /\ create' = << b >>
    /\ UNCHANGED << call, scroll, search, update, expanded, called, commands >>

CreateArea == \E area \in Areas : CreateSetter(SetArea(create[1], area))
CreatePIN == \E pin \in PINs : CreateSetter(SetPIN(create[1], pin))
CreateSetProduct == \E product \in CreateProducts : CreateSetter(SetProduct(create[1], product))

CreateDo ==
    /\ pc = "idle" /\ op = "none" /\ create # << >>
    /\ \E tr \in EditTransports : Returned("Create", CreateDoCall(create[1], tr))
    /\ UNCHANGED << others, commands >>

\* service.Update()
Update ==
    /\ Unused
    /\ update' = << NewUpdateService >>
    /\ UNCHANGED << call, scroll, search, create, expanded, called, commands >>

UpdateSetter(b) ==
    /\ pc = "idle" /\ op = "none" /\ update # << >>
    /\ update' = << b >>
    /\ UNCHANGED << call, scroll, search, create, expanded, called, commands >>

UpdateArea == \E area \in Areas : UpdateSetter(SetArea(update[1], area))
UpdatePIN == \E pin \in PINs : UpdateSetter(SetPIN(update[1], pin))
UpdateSetProduct == \E product \in UpdateProducts : UpdateSetter(SetProduct(update[1], product))
UpdateSpn == \E spn \in Spns : UpdateSetter(SetSpn(update[1], spn))

UpdateDo ==
    /\ pc = "idle" /\ op = "none" /\ update # << >>
    /\ \E tr \in EditTransports : Returned("Update", UpdateDoCall(update[1], tr))
    /\ UNCHANGED << others, commands >>

(***************************************************************************)
(* The download command (downloadCommand.Run).                             *)
(***************************************************************************)
\* up to the loop: the argument check, the service, the CSV header
DownloadRun ==
    /\ Unused
    /\ \E args \in { << >> } \cup { << pin >> : pin \in PINs }, area \in Areas :
          /\ pc' = IF Len(args) # 1 THEN "failed" ELSE "loop"
          /\ cmd' = [pin |-> IF Len(args) # 1 THEN "" ELSE args[1], area |-> area]
          /\ calls' = << >>
          /\ pageToken' = ""
          /\ n' = 0
          /\ out' = << >>
    /\ op' = "none" /\ sent' = << >> /\ res' = NoResponse
    /\ chk' = Nil /\ ret' = NilResult /\ err' = Nil
    /\ UNCHANGED << others, service, programs >>
\* service.Scroll().PIN(args[0]).Area(c.area).PageToken(pageToken)
DownloadBuilder(c, token) ==
    SetPageToken(SetArea(SetPIN(NewScrollService, c.pin), c.area), token)

\* a variant that leaves the loop on the first page without items
FinishedOnEmptyPage(r) == r.ret.Items = << >>

\* if res.PageToken == "" { break }
Finished(r) == r.ret.PageToken = ""

\* a variant that keeps the first token it was given
KeepFirstToken(r) == IF pageToken = "" THEN r.ret.PageToken ELSE pageToken

\* pageToken = res.PageToken
NextPageToken(r) == r.ret.PageToken

\* a variant that writes no row for the page that ends the iteration
RowsUnlessLast(r) == IF r.ret.PageToken = "" THEN << >> ELSE r.ret.Items

\* for _, item := range res.Items: the rows written for the page, one for
\* each item (a row is identified by its first column, item.Spn)
Rows(r) == r.ret.Items

\* one turn of the loop, r the outcome of its Do: the rows of the page, and
\* the end of the loop when the page carries no token
DownloadTurn(r) ==
    /\ Returned("Scroll", r)
    /\ calls' = calls \o r.sent
    /\ IF r.err.kind # "nil"
       THEN /\ pc' = "failed"
            /\ UNCHANGED << pageToken, n, out >>
       ELSE /\ out' = out \o Rows(r)
            /\ n' = n + Len(Rows(r))
            /\ IF Finished(r)
               THEN pc' = "done" /\ UNCHANGED pageToken
               ELSE pc' = "loop" /\ pageToken' = NextPageToken(r)

DownloadStep ==
    /\ pc = "loop" /\ Len(calls) < MaxCalls
    /\ \E tr \in ScrollTransports :
          DownloadTurn(ScrollDoCall(DownloadBuilder(cmd, pageToken), tr))
    /\ UNCHANGED << others, cmd, service, programs >>

\* uploadCommand.Run
UploadRun ==
    /\ Unused
    /\ \E args \in { << >> } \cup { << pin >> : pin \in PINs }, read \in HeaderReads :
          upload' = UploadStart(args, read)
    /\ UNCHANGED << call, others, download, service, publish, procs >>

UploadStep ==
    /\ upload.pc = "rows"
    /\ \E read \in RecordReads(upload.header), tr \in EditTransports :
          /\ read.err = "" => upload.line <= MaxRows
          /\ upload' = UploadTurn(upload, read, tr)
    /\ UNCHANGED << call, others, download, service, publish, procs >>

\* publishCommand.Run
PublishRun ==
    /\ Unused
    /\ \E args \in { << >> } \cup { << pin >> : pin \in PINs }, tr \in PublishTransports :
          publish' = PublishStart(args, PublishDoCall(SetPIN(NewPublishService,
                                                            IF Len(args) = 1 THEN args[1] ELSE ""),
                                                     tr))
    /\ UNCHANGED << call, others, download, service, upload, procs >>

PublishStep ==
    /\ publish.pc = "poll" /\ Len(publish.calls) <= MaxPolls
    /\ \E tr \in StatusTransports :
          publish' = PublishTurn(publish,
                                 PublishStatusDoCall(SetPIN(NewPublishService, publish.pin), tr))
    /\ UNCHANGED << call, others, download, service, upload, procs >>

\* the goroutines
GoScroll ==
    /\ \E g \in Goroutines :
          /\ procs.proc[g].pc = "none"
          /\ Unused \/ \E h \in Goroutines : procs.proc[h].pc # "none"
          /\ procs' = Go(procs, g)
    /\ UNCHANGED << call, others, download, service, upload, publish >>

GoSetPIN ==
    /\ \E g \in Goroutines, pin \in PINs :
          /\ procs.proc[g].pc = "building"
          /\ procs' = GoPIN(procs, g, pin)
    /\ UNCHANGED << call, others, download, service, upload, publish >>

GoSetPageToken ==
    /\ \E g \in Goroutines, t \in Tokens \ {""} :
          /\ procs.proc[g].pc = "building"
          /\ procs' = GoPageToken(procs, g, t)
    /\ UNCHANGED << call, others, download, service, upload, publish >>

GoDo ==
    /\ \E g \in Goroutines :
          /\ procs.proc[g].pc = "building"
          /\ procs' = GoBuild(procs, g, ScrollDoCall(procs.heap[procs.proc[g].ref], NoAnswer))
    /\ UNCHANGED << call, others, download, service, upload, publish >>

GoDone ==
    /\ \E g \in Goroutines, tr \in { NoAnswer, Answer(200, PageBody(<< >>, ""), 7) } :
          /\ procs.proc[g].pc = "sending"
          /\ procs' = GoReturn(procs, g, ScrollDoCall(procs.proc[g].b, tr))
    /\ UNCHANGED << call, others, download, service, upload, publish >>

Next ==
    \/ Configure
    \/ MeDo
    \/ PingDo
    \/ Scroll
    \/ ScrollArea
    \/ ScrollMode
    \/ ScrollPageToken
    \/ ScrollPIN
    \/ ScrollVersion
    \/ ScrollDo
    \/ ExpandCall
    \/ Search
    \/ SearchArea
    \/ SearchPIN
    \/ SearchQ
    \/ SearchSkip
    \/ SearchSort
    \/ SearchTake
    \/ SearchDo
    \/ Create
    \/ CreateArea
    \/ CreatePIN
    \/ CreateSetProduct
    \/ CreateDo
    \/ Update
    \/ UpdateArea
    \/ UpdatePIN
    \/ UpdateSetProduct
    \/ UpdateSpn
    \/ UpdateDo
    \/ DownloadRun
    \/ DownloadStep
    \/ UploadRun
    \/ UploadStep
    \/ PublishRun
    \/ PublishStep
    \/ GoScroll
    \/ GoSetPIN
    \/ GoSetPageToken
    \/ GoDo
    \/ GoDone

Spec == Init /\ [][Next]_vars

(***************************************************************************)
(* Properties.                                                             *)
(***************************************************************************)
\* what the last Do read of the body of its response
Received == SubSeq(res.data, 1, res.pos)

\* the whole body can be read: no read of it fails
ReadWhole == res.recv /\ res.avail = Len(res.data)

NonSuccess == res.recv /\ res.StatusCode \notin 200..299

\* C1: CheckResponse returns no error exactly when the status code is in
\* 200..299; for every other status, 1xx and 3xx among them, it returns an
\* error of type *Error.
C1_SuccessIff2xx ==
    res.recv =>
       /\ (chk.kind = "nil") <=> (res.StatusCode \in 200..299)
       /\ chk.kind \in {"nil", "Error"}

C1_Witness == res.recv /\ res.StatusCode = 300 /\ chk.kind = "Error"

\* C2: for a non-2xx response whose body decodes as {"error": envelope} the
\* error returned is that envelope: message and details are the body's, the
\* code is the body's code when that is not zero, and the HTTP status when
\* it is zero or missing.
C2_Envelope(j) ==
    (~j.err /\ j.has) =>
       /\ chk.kind = "Error"
       /\ chk.Message = j.e.Message
       /\ chk.Details = j.e.Details
       /\ chk.Code = IF j.e.Code # 0 THEN j.e.Code ELSE res.StatusCode

C3_NonJSONBodyIsAnError ==
    (NonSuccess /\ ~CheckValid(Received)) =>
       /\ err.kind = "Error"
       /\ ret.nil
       /\ err.Code = res.StatusCode
       /\ err.Body = Received

C3_Witness ==
    /\ NonSuccess /\ res.data = << X("Bad Gateway") >> /\ ReadWhole
    /\ err.kind = "Error" /\ err.Code = res.StatusCode /\ err.Body = << X("Bad Gateway") >>

\* C4: every error CheckResponse returns, on the envelope path and on the
\* fallback path, carries in Body the body that was received.
C4_ErrorCarriesRawBody == chk.kind = "Error" => chk.Body = Received

C4_Witness ==
    /\ chk.kind = "Error" /\ res.data = SpoofBody /\ ReadWhole
    /\ chk.Code = 42 /\ chk.Body = SpoofBody

\* C5: for every error CheckResponse returns, Error.Code is the HTTP status
\* code of the response, and is never zero.
C5_CodeIsTheStatus ==
    chk.kind = "Error" => chk.Code = res.StatusCode /\ chk.Code # 0

\* C6: a Do that returns a result returns exactly one of a result and an
\* error: the result is nil whenever the error is not, and is not nil
\* whenever the error is.
C6_ResultXorError == op \in {"Me", "Scroll", "Search", "Update", "Create"} => (ret.nil <=> err.kind # "nil")

C6_Witness ==
    /\ op = "Me" /\ res.recv /\ res.StatusCode = 200
    /\ err.kind = "syntax" /\ ret.nil

\* C7: the body of a received response is closed exactly once on every way
\* out of the Do: success, a 2xx body that does not decode, a non-2xx status.
C7_BodyClosedOnce ==
    /\ res.recv => res.closed = 1
    /\ ~res.recv => res.closed = 0

C7_Witness ==
    /\ op = "Me" /\ res.recv /\ res.StatusCode \in 200..299
    /\ err.kind = "type" /\ res.closed = 1

\* C8: the body of a received response has been read to its end (as far as
\* the network delivers it) when the Do returns, on every way out: success,
\* decode failure and error.
C8_BodyDrained == res.recv => res.pos = res.avail

\* C9: no retries: a Do hands at most one request to the transport, and a
\* transport failure, a non-2xx status or a decode failure is returned with
\* the request sent once.
C9_NoRetries ==
    /\ Len(sent) <= 1
    /\ (res.recv \/ err.kind = "transport") => Len(sent) = 1

C9_Witness == op = "Me" /\ err.kind = "transport" /\ Len(sent) = 1 /\ ret.nil

\* C10: the first request of a scroll iteration carries no token: pageToken
\* is absent from its parameters (not present and empty) and from its URL,
\* in the download command's loop as in Scroll().PIN().Area().Do().
NoPageToken(req) ==
    "pageToken" \notin DOMAIN req.Params /\ ~HasQueryParam(req.Path, "pageToken")

C10_FirstRequestHasNoToken ==
    /\ (pc = "idle" /\ op = "Scroll" /\ sent # << >>
           /\ "pageToken" \notin DOMAIN scroll[1].opt_) => NoPageToken(sent[1])
    /\ calls # << >> => NoPageToken(calls[1])

\* a turn of the download loop: it has handed a request to the transport
Turn == pc = "loop" /\ calls' # calls

\* the turn received the page PageBody(items, token) whole, with status 200
Page(r, items, token) ==
    /\ r.recv /\ r.StatusCode = 200
    /\ r.data = PageBody(items, token) /\ r.avail = Len(r.data)

\* the request carries the token: it is the pageToken of the parameters the
\* Do expands its URL from
Carries(req, token) ==
    /\ "pageToken" \in DOMAIN req.Params
    /\ req.Params["pageToken"] = S(token)

\* C11: the caller feeds the returned token into the next call unchanged:
\* the request of every turn of the download loop after the first carries
\* the token of the page the turn before it received.
C11_TokenFedBack ==
    [][ (Turn /\ calls # << >>) =>
           \A items \in ItemLists, token \in Tokens :
              Page(res, items, token) => Carries(calls'[Len(calls')], token) ]_vars

C11_Witness ==
    /\ Len(calls) = 3
    /\ Carries(calls[2], "T1") /\ Carries(calls[3], "T2")

\* C12: the iteration ends on the first page whose token is empty and sends
\* no request after it: a turn that receives a page ends the loop exactly
\* when the page has no token, a loop that has ended sends nothing more, and
\* a server that answers "T1" and then "" is called exactly twice.
C12_EndsOnEmptyToken ==
    /\ [][ Turn => \A items \in ItemLists, token \in Tokens :
                     Page(res', items, token) => (pc' = "done" <=> token = "") ]_vars
    /\ [][ (pc \in {"done", "failed"}) => (calls' = calls /\ pc' = pc) ]_vars
    /\ [][ (Turn /\ Len(calls) = 1
              /\ \E first, last \in ItemLists :
                    Page(res, first, "T1") /\ Page(res', last, ""))
           => (pc' = "done" /\ Len(calls') = 2) ]_vars

C12_Witness ==
    /\ pc = "done" /\ Len(calls) = 2
    /\ Carries(calls[2], "T1") /\ Page(res, << "B", "C" >>, "")

Seen(reqs) ==
    { reqs[i].Params["pageToken"].s : i \in 1..Len(reqs) } \ {""}

\* C14: a page whose token is one the iteration has already seen ends the
\* iteration: the loop does not go on with a repeated token.
C14_RepeatedTokenAborts ==
    [][ (Turn /\ err'.kind = "nil" /\ ret'.PageToken \in Seen(calls')) => pc' # "loop" ]_vars

\* the names of the query pairs of an expanded path, in the order emitted
RECURSIVE QueryNamesFrom(_, _)
QueryNamesFrom(path, i) ==
    IF i >= Len(path) THEN << >>
    ELSE (IF i > 1 /\ path[i - 1] \in {"?", "&"} /\ path[i + 1] = "="
          THEN << path[i] >> ELSE << >>)
         \o QueryNamesFrom(path, i + 1)

\* the declared names, in the declared order, that the builder has a value for
DeclaredPresent(declared, opt) ==
    LET Present(x) == x \in DOMAIN opt IN SelectSeq(declared, Present)

\* C15: the pairs of a query-form expression come in the order the template
\* declares, whatever the order the parameters were supplied in: the path of
\* a products Search carries the pairs of the options set on the builder in
\* the order q, skip, take, sort.
C15_DeclaredOrder ==
    (op = "Search" /\ sent # << >>) =>
       QueryNamesFrom(sent[1].Path, 1)
          = DeclaredPresent(<< "q", "skip", "take", "sort" >>, search[1].opt_)

C15_Witness ==
    /\ op = "Search"
    /\ search[1] = [pin |-> "AD8CCDD5F9", area |-> "work",
                    opt_ |-> Put(Put(Put(EmptyMap, "sort", S("name")), "take", N(5)),
                                 "skip", N(10))]
    /\ sent = << Request("GET",
                         << "/catalogs/", "AD8CCDD5F9", "/", "work", "/products",
                            "?", "skip", "=", "10", "&", "take", "=", "5",
                            "&", "sort", "=", "name" >>,
                         SearchParams(search[1])) >>

\* the variables of the query-form expression of a template, as declared
RECURSIVE QueryVariables(_, _)
QueryVariables(template, k) ==
    IF k > Len(template) THEN << >>
    ELSE (IF template[k].seg = "query" THEN template[k].names ELSE << >>)
         \o QueryVariables(template, k + 1)

\* the value that follows name= in the path
PairValue(path, name) ==
    path[(CHOOSE i \in 2..Len(path) - 2 :
             path[i] = name /\ path[i - 1] \in {"?", "&"} /\ path[i + 1] = "=") + 2]

Count(path, piece) == Cardinality({ i \in 1..Len(path) : path[i] = piece })

\* C16: a query-form expression emits a pair for exactly the declared
\* variables that have a value in the parameter set, each with its encoded
\* value, never key= for one that has none, and the '?' only when there is
\* a pair; /catalogs/{pin}/{area}/products{?q,skip,take,sort} with pin, area
\* and skip=10 gives /catalogs/AD8CCDD5F9/work/products?skip=10.
C16_PairsOfPresentOnly ==
    (expanded.called /\ expanded.err = "") =>
       LET names == QueryNamesFrom(expanded.path, 1) IN
       /\ names = DeclaredPresent(QueryVariables(expanded.template, 1), expanded.params)
       /\ \A i \in 1..Len(names) :
             PairValue(expanded.path, names[i])
                = PercentEncode(Stringify(expanded.params[names[i]]))
       /\ Count(expanded.path, "?") = IF names = << >> THEN 0 ELSE 1
       /\ Count(expanded.path, "&") = IF names = << >> THEN 0 ELSE Len(names) - 1
       /\ (expanded.template = SearchTemplate
              /\ expanded.params = [x \in {"pin", "area", "skip"} |-> ParamValue(x)])
           => expanded.path = << "/catalogs/", "AD8CCDD5F9", "/", "work", "/products",
                                 "?", "skip", "=", "10" >>

C16_Witness ==
    /\ expanded.called /\ expanded.template = SearchTemplate
    /\ DOMAIN expanded.params = {"pin", "area", "skip"}
    /\ expanded.path = << "/catalogs/", "AD8CCDD5F9", "/", "work", "/products",
                          "?", "skip", "=", "10" >>

\* the path variables of a template without a value in the parameter set
Missing(template, params) ==
    { template[k].text : k \in { j \in 1..Len(template) : template[j].seg = "var" } }
       \ DOMAIN params

\* C17: Expand fails exactly when a path variable of the template has no
\* value; the error names such a variable and the path returned is empty;
\* a Do that gets this error from Expand returns it, with a nil result, and
\* sends no request.
C17_MissingVariableFails ==
    expanded.called =>
       LET missing == Missing(expanded.template, expanded.params) IN
       /\ (expanded.err # "") <=> (missing # {})
       /\ missing # {} =>
             /\ expanded.err \in missing
             /\ expanded.path = << >>
             /\ \A tr \in SearchTransports :
                   LET r == DoExpanded("SearchResponse", "GET", expanded.params, << >>,
                                       [err |-> expanded.err, path |-> expanded.path], tr)
                   IN r.sent = << >> /\ r.ret.nil /\ r.err = ExpandError(expanded.err)

C17_Witness ==
    /\ expanded.called /\ expanded.template = SearchTemplate
    /\ DOMAIN expanded.params = {"area", "skip"}
    /\ expanded.err = "pin" /\ expanded.path = << >>

\* the JSON value of a request body: the body without its line end
Payload(req) == SubSeq(req.Body, 1, Len(req.Body) - 1)

\* the keys of the object, and the value token that follows a key
Keys(toks) == { Members(toks, 1)[i].key : i \in 1..Len(Members(toks, 1)) }

ValueAt(toks, key) ==
    LET ms == Members(toks, 1)
    IN Tok(toks, ms[CHOOSE i \in 1..Len(ms) : ms[i].key = key].at)

Updated == op = "Update" /\ sent # << >> /\ ~update[1].product.nil

\* C18: the payload of an update is a JSON object that has no key for a
\* field that is unset (nil) and never a null, and has the key with its
\* value for every field set to a value; with only Name set to "X" it is
\* {"name":"X"}.
C18_OnlySetFieldsEmitted ==
    Updated =>
       LET p == update[1].product
           toks == Payload(sent[1])
       IN /\ CheckValid(toks) /\ toks[1] = LB
          /\ sent[1].Body[Len(sent[1].Body)] = NL
          /\ Cardinality(Keys(toks)) = Len(Members(toks, 1))
          /\ Keys(toks) \subseteq {"categories", "name", "price"}
          /\ \A k \in Keys(toks) : ValueAt(toks, k) # Null
          /\ p.Name.nil => "name" \notin Keys(toks)
          /\ p.Price.nil => "price" \notin Keys(toks)
          /\ p.Categories.nil => "categories" \notin Keys(toks)
          /\ ~p.Name.nil => "name" \in Keys(toks) /\ ValueAt(toks, "name") = p.Name.v
          /\ ~p.Price.nil => "price" \in Keys(toks) /\ ValueAt(toks, "price") = p.Price.v
          /\ p.Categories.v # << >> =>
                "categories" \in Keys(toks) /\ ValueAt(toks, "categories") = LA
          /\ p = UpdateProduct(NilSlice, PointerTo(S("X")), NilPointer)
                => toks = << LB, S("name"), CO, S("X"), RB >>

C18_Witness ==
    /\ Updated
    /\ update[1].product = UpdateProduct(NilSlice, PointerTo(S("X")), NilPointer)
    /\ sent[1].Body = << LB, S("name"), CO, S("X"), RB, NL >>

\* C19: the payload tells unset, cleared and set apart for every field: a
\* field that is explicitly cleared (a pointer to the empty value, an empty
\* list) is emitted with its key, and only an unset field is omitted.
C19_ClearedIsEmitted ==
    Updated =>
       LET p == update[1].product
           toks == Payload(sent[1])
       IN /\ ("name" \in Keys(toks)) <=> ~p.Name.nil
          /\ ("price" \in Keys(toks)) <=> ~p.Price.nil
          /\ ("categories" \in Keys(toks)) <=> ~p.Categories.nil

BlankSpn == op = "Create" /\ ~create[1].product.nil /\ create[1].product.Spn = ""

\* C20: no local validation of required fields: a Create whose product has
\* a blank SPN sends its request all the same, without an spn in the
\* payload, and what the caller gets when the server rejects it is the
\* server's error, code and message, with a nil result.
C20_NoLocalValidation ==
    BlankSpn =>
       /\ Len(sent) = 1
       /\ sent[1].Method = "POST"
       /\ "spn" \notin Keys(Payload(sent[1]))
       /\ err.kind \in {"nil", "transport", "Error"}
       /\ (res.recv /\ res.StatusCode = 400 /\ res.data = BlankSpnBody) =>
             /\ err = Error(400, "SPN must not be blank", << >>, BlankSpnBody)
             /\ ret.nil

C20_Witness ==
    /\ BlankSpn /\ Len(sent) = 1
    /\ create[1].pin = "AD8CCDD5F9" /\ create[1].area = "work"
    /\ sent[1].Body = << LB, S("name"), CO, S("Produkt 1000"), CM,
                          S("price"), CO, N(5), RB, NL >>
    /\ res.recv /\ res.StatusCode = 400
    /\ err.kind = "Error" /\ err.Code = 400 /\ err.Message = "SPN must not be blank"
    /\ ret.nil

\* the requests of the run: the one of the last Do and those of the loop
Requests == { sent[i] : i \in 1..Len(sent) } \cup { calls[i] : i \in 1..Len(calls) }

\* C21: a request carries an Authorization header exactly when User or
\* Password of the Service is not empty, and the header is then "Basic "
\* followed by the base64 of user:password; with both empty it has none.
C21_BasicAuthWhenCredentials ==
    \A req \in Requests :
       /\ ("Authorization" \in DOMAIN req.Header)
             <=> (service.User # "" \/ service.Password # "")
       /\ "Authorization" \in DOMAIN req.Header =>
             /\ req.Header["Authorization"][1] = "Basic "
             /\ req.Header["Authorization"][2] = Base64Encode(service.User, service.Password)
       /\ (service.User = "me" /\ service.Password = "secret") =>
             req.Header["Authorization"] = << "Basic ", "bWU6c2VjcmV0" >>
       /\ {"Accept", "Content-Type", "User-Agent"} \subseteq DOMAIN req.Header

C21_Witness ==
    /\ op = "Ping" /\ Len(sent) = 1
    /\ service.User = "" /\ service.Password = "secret"
    /\ sent[1].Header["Authorization"] = << "Basic ", "OnNlY3JldA==" >>

\* C23: Error() of a *Error is "meplatoapi: Error <Code>: " followed by the
\* message when there is one: the prefix with the code is always there, and
\* the 401 envelope with the message "Unauthorized" gives
\* "meplatoapi: Error 401: Unauthorized".
C23_ErrorString ==
    err.kind = "Error" =>
       LET text == ErrorString(err) IN
       /\ Len(text) = IF err.Message = "" THEN 3 ELSE 4
       /\ text[1] = "meplatoapi: Error " /\ text[2] = ToString(err.Code) /\ text[3] = ": "
       /\ err.Message # "" => text[4] = err.Message
       /\ (res.StatusCode = 401 /\ res.data = UnauthorizedBody /\ ReadWhole) =>
             text = << "meplatoapi: Error ", "401", ": ", "Unauthorized" >>

C23_Witness ==
    /\ op = "Me" /\ res.StatusCode = 401 /\ res.data = UnauthorizedBody /\ ReadWhole
    /\ ErrorString(err) = << "meplatoapi: Error ", "401", ": ", "Unauthorized" >>

\* the body is an object with a member "error" (in any case) that is an object
HasErrorObject(toks) ==
    /\ Tok(toks, 1) = LB
    /\ \E i \in 1..Len(Members(toks, 1)) :
          /\ Members(toks, 1)[i].key \in {"error", "Error"}
          /\ Tok(toks, Members(toks, 1)[i].at) = LB

\* C26: a non-2xx response whose body is valid JSON without an "error"
\* object, such as {} or {"error":null}, gives the fallback error: Code is
\* the HTTP status, Body the raw body, Message empty; it is no success.
C26_NoEnvelopeFallsBack ==
    (NonSuccess /\ ReadWhole /\ CheckValid(res.data) /\ ~HasErrorObject(res.data)) =>
       /\ chk = Error(res.StatusCode, "", << >>, res.data)
       /\ err = chk
       /\ op # "Ping" => ret.nil

C26_Witness ==
    /\ NonSuccess /\ ReadWhole /\ res.data = << LB, S("error"), CO, Null, RB >>
    /\ res.StatusCode = 500
    /\ err = Error(500, "", << >>, << LB, S("error"), CO, Null, RB >>)

\* the builder of the last Do, its template's path variables and its fields
PathVariables ==
    CASE op = "Scroll" -> [pin |-> scroll[1].pin, area |-> scroll[1].area]
      [] op = "Search" -> [pin |-> search[1].pin, area |-> search[1].area]
      [] op = "Create" -> [pin |-> create[1].pin, area |-> create[1].area]
      [] op = "Update" ->
           [pin |-> update[1].pin, area |-> update[1].area, spn |-> update[1].spn]
      [] OTHER -> EmptyMap

\* C27: a Do puts every path variable of its template into the parameters
\* it expands, with the string the builder holds, the empty string when the
\* setter was never called: no path variable is ever absent at expansion.
C27_PathVariablesAlwaysPresent ==
    (op \in {"Scroll", "Search", "Create", "Update"} /\ pc = "idle") =>
       /\ Len(sent) = 1
       /\ \A v \in DOMAIN PathVariables :
             v \in DOMAIN sent[1].Params /\ sent[1].Params[v] = S(PathVariables[v])

C27_Witness ==
    /\ op = "Scroll" /\ pc = "idle" /\ scroll[1] = NewScrollService
    /\ sent[1].Params = [v \in {"pin", "area"} |-> S("")]
    /\ sent[1].Path = << "/catalogs/", "", "/", "", "/products/scroll" >>

\* the calls of the setter of `name`, as positions in the log
CallsOf(name) == { i \in 1..Len(called) : called[i].name = name }

Last(is) == CHOOSE i \in is : \A j \in is : j <= i

\* C28: an optional variable is among the parameters a Do expands exactly
\* when its setter was called on the builder, with the value of the last
\* call, whatever that value is: 0 after Skip(0), the empty string after
\* Sort("") or PageToken(""); a setter never called leaves it absent.
C28_PresentIffSetterCalled ==
    (op \in {"Scroll", "Search"} /\ pc = "idle" /\ sent # << >>) =>
       \A v \in (IF op = "Scroll" THEN {"pageToken", "mode", "version"}
                 ELSE {"q", "skip", "take", "sort"}) :
          /\ (v \in DOMAIN sent[1].Params) <=> (CallsOf(v) # {})
          /\ CallsOf(v) # {} => sent[1].Params[v] = called[Last(CallsOf(v))].value

C28_Witness ==
    /\ op = "Search" /\ sent # << >>
    /\ called = << [name |-> "skip", value |-> N(10)], [name |-> "skip", value |-> N(0)],
                   [name |-> "sort", value |-> S("")] >>
    /\ sent[1].Params["skip"] = N(0) /\ sent[1].Params["sort"] = S("")
    /\ "take" \notin DOMAIN sent[1].Params


\* the columns of a header row
ColumnsOf(header) == { header[i] : i \in 1..Len(header) }

\* the cell of the last record in the column, "" when the header has no
\* such column
CellOf(u, column) ==
    IF column \notin ColumnsOf(u.header) THEN ""
    ELSE u.record[CHOOSE i \in 1..Len(u.header) : u.header[i] = column]

\* the last turn of the upload loop has sent the request of a row
Uploaded(mode) == upload.pc \in {"rows", "failed"} /\ upload.sent # << >> /\ upload.row.Mode = mode

\* the columns an update takes its fields from, and the key and the value
\* of the field in the payload
UpdateColumns == {"NAME", "PRICE", "ORDER_UNIT", "MPN", "MANUFACTURER", "TAX_CODE"}

KeyOf(column) ==
    CASE column = "NAME" -> "name"
      [] column = "PRICE" -> "price"
      [] column = "ORDER_UNIT" -> "ou"
      [] column = "MPN" -> "mpn"
      [] column = "MANUFACTURER" -> "manufacturer"
      [] OTHER -> "taxCode"

ValueOf(column, cell) == IF column = "PRICE" THEN N(ParseFloat(cell).v) ELSE S(cell)

\* C24: the upload fails for every input whose header row lacks the MODE or
\* the SPN column, an input with such a header and no data rows included:
\* the command never ends successfully on such a header.
C24_HeaderNeedsModeAndSpn ==
    upload.pc = "done" => {"MODE", "SPN"} \subseteq ColumnsOf(upload.header)

\* C25: in mode U the payload sent has, of the fields NAME, PRICE,
\* ORDER_UNIT, MPN, MANUFACTURER and TAX_CODE, exactly those whose cell is
\* not blank, each with the value of its cell; a blank cell leaves the
\* field out of the payload.
C25_NonBlankColumnsUpdated ==
    Uploaded("U") =>
       LET toks == Payload(upload.sent[1]) IN
       /\ upload.sent[1].Method = "POST"
       /\ CheckValid(toks) /\ toks[1] = LB
       /\ Keys(toks) \subseteq { KeyOf(c) : c \in UpdateColumns } \cup {"eclasses"}
       /\ \A c \in UpdateColumns :
             /\ KeyOf(c) \in Keys(toks) <=> CellOf(upload, c) # ""
             /\ CellOf(upload, c) # "" =>
                   ValueAt(toks, KeyOf(c)) = ValueOf(c, CellOf(upload, c))

C25_Witness ==
    /\ Uploaded("U")
    /\ upload.header = << "MODE", "SPN", "NAME", "PRICE", "ORDER_UNIT" >>
    /\ upload.record = << "U", "1000", "", "0", "PCE" >>
    /\ Payload(upload.sent[1]) = << LB, S("ou"), CO, S("PCE"), CM, S("price"), CO, N(0), RB >>

\* C30: no request is sent for a row before row.Validate has succeeded on
\* it, so a create never dereferences a nil Name, Price or OrderUnit (the
\* command never panics); the first row that fails to parse, to validate
\* or in its API call ends the upload, and nothing is processed after it.
C30_ValidatedBeforeCall ==
    /\ [](upload.pc # "panic")
    /\ [](upload.sent # << >> =>
             /\ HandleCells(upload.header, upload.record, 1, NewRow(upload.line)).err = ""
             /\ upload.row.Mode \in {"C", "U", "D"} /\ upload.row.SPN # ""
             /\ upload.row.Mode = "C" =>
                   /\ ~upload.row.Name.nil /\ upload.row.Name.v.s # ""
                   /\ ~upload.row.Price.nil /\ upload.row.Price.v.n >= 0
                   /\ ~upload.row.OrderUnit.nil /\ upload.row.OrderUnit.v.s # "")
    /\ [](upload.err # "" => upload.pc = "failed")
    /\ [][ upload.pc \in {"failed", "done", "panic"} => upload' = upload ]_vars
    /\ [][ (upload.pc = "rows" /\ upload' # upload /\ upload'.pc = "rows")
              => (upload'.line = upload.line + 1 /\ upload'.ncalls = upload.ncalls + 1) ]_vars

C30_Witness ==
    /\ upload.pc = "failed" /\ upload.err = "no name specified"
    /\ upload.line = 3 /\ upload.ncalls = 1 /\ upload.sent = << >>
    /\ upload.record = << "C", "1000", "", "5", "PCE" >>


\* a step of the publish command that hands a request to the transport
Polls == publish.pc = "poll" /\ publish'.calls # publish.calls

StatusRequest(req) ==
    /\ req.Method = "GET"
    /\ req.Params = PublishParams([pin |-> publish'.pin])

\* C29: the publish command requests the status only after Publish has
\* succeeded; polling ends exactly at the first status with Done = true
\* (success) or the first failed status call (that error); after the end no
\* request is made.
C29_PollsUntilDoneOrError ==
    /\ [][ (publish.pc = "idle" /\ publish'.pc # "idle")
              => /\ Len(publish'.calls) <= 1
                 /\ \A i \in 1..Len(publish'.calls) : publish'.calls[i].Method = "POST"
                 /\ publish'.pc = "poll" <=>
                       (publish'.calls # << >> /\ publish'.last.err = "nil")
                 /\ publish'.pc # "poll" => publish'.pc = "failed" ]_vars
    /\ [][ (\E i \in 1..Len(publish'.calls) : i > 1 /\ i > Len(publish.calls))
              => (Polls /\ Len(publish'.calls) = Len(publish.calls) + 1) ]_vars
    /\ [][ Polls
              => /\ StatusRequest(publish'.calls[Len(publish'.calls)])
                 /\ publish'.pc = "done" <=> (publish'.last.err = "nil" /\ publish'.last.Done)
                 /\ publish'.pc = "failed" <=> publish'.last.err # "nil"
                 /\ publish'.pc = "poll" <=> (publish'.last.err = "nil" /\ ~publish'.last.Done) ]_vars
    /\ [][ publish.pc \in {"done", "failed"} => publish' = publish ]_vars

C29_Witness ==
    /\ publish.pc = "done" /\ Len(publish.calls) = 3
    /\ publish.calls[1].Method = "POST" /\ publish.calls[3].Method = "GET"
    /\ publish.last = [err |-> "nil", Done |-> TRUE]


\* C22: operations that run concurrently on one Service do not interfere:
\* no operation of the library writes a field of the Service (only the
\* caller does, before the first use), a goroutine's builder changes only
\* by that goroutine's own setters, and the request a goroutine has sent is
\* the one its own builder and the Service's BaseURL, User and Password
\* determine, in every interleaving.
C22_IndependentOperations ==
    /\ [][ service' # service => (Unused /\ service = NewService) ]_vars
    /\ [](\A g \in Goroutines :
             procs.proc[g].pc = "building" => procs.heap[procs.proc[g].ref] = procs.proc[g].own)
    /\ [](\A g \in Goroutines :
             procs.proc[g].pc \in {"sending", "returned"} =>
                procs.proc[g].sent = ScrollDoCall(procs.proc[g].own, NoAnswer).sent)

C22_Witness ==
    /\ procs.proc[1].pc = "returned" /\ procs.proc[2].pc = "returned"
    /\ service.User = "me"
    /\ procs.proc[1].own = SetPageToken(SetPIN(NewScrollService, "AD8CCDD5F9"), "T1")
    /\ procs.proc[2].own = SetPageToken(NewScrollService, "T2")
    /\ Len(procs.proc[1].sent) = 1 /\ Len(procs.proc[2].sent) = 1
    /\ procs.proc[2].sent[1].Params["pageToken"] = S("T2")
    /\ procs.proc[2].sent[1].Params["pin"] = S("")
    /\ "Authorization" \in DOMAIN procs.proc[1].sent[1].Header
    /\ procs.proc[1].sent[1].Params["pageToken"] = S("T1")

====
